---- MODULE Spec2Model ----
(***************************************************************************)
(* Repetition-detection engine of the fitness rep counter                  *)
(* (ExerciseDetectionService, services/exerciseDetection.ts, first class   *)
(* of src/unnamed/part_003).                                               *)
(*                                                                         *)
(* A frame is the tuple of quantities the engine derives from a keypoint   *)
(* set: the perspective detectPerspective() returns, the angle/yPosition/  *)
(* bodyHeight getPrimaryValue() returns, the score checkBodyAlignment()    *)
(* returns and the knee measurements checkForm()/calculateFormScore() use. *)
(*                                                                         *)
(* Representation notes                                                    *)
(*  - Date.now() is not stored.  The two timestamps the engine keeps are   *)
(*    represented by their age: timeSinceLastChange = now -                *)
(*    lastPhaseChangeTime and repDuration = now - repStartTime, both       *)
(*    saturated at ClockCap (the code compares them with 150 and 400       *)
(*    only).  Both timestamps start at 0, so both ages start saturated.    *)
(*  - angleHistory / yHistory are represented by their length (the code    *)
(*    caps it at 60) and their last MIN_STABLE_FRAMES samples, which is    *)
(*    all the code ever reads (slice(-MIN_STABLE_FRAMES) and .length).     *)
(*  - Means are kept in sixtieths (Mean) and range of motion in 36ths of   *)
(*    a percent, form score in 360ths of a point, so that the divisions    *)
(*    and the 0.4 / 0.3 / 0.2 weights of the code are exact.               *)
(*  - calibrationFrames, stableFrames, lastKeypoints, peakPosition and     *)
(*    bottomPosition are written but never read by this class; they are    *)
(*    not part of the model.                                               *)
(***************************************************************************)
EXTENDS Integers, Sequences, FiniteSets, TLC

\* ------------------------------------------------------------------ bounds
MaxFrames == 19
ClockCap == 600
MaxArrivals == 62
MaxIssues == 4
MaxFed == 30
MaxSpeakCalls == 4
MaxSets == 3
TargetReps == 2
MaxSetTimers == 2
MaxLoops == 2
MaxRepsAdded == 3
MaxPoseFrames == 7
MaxTime == 3
MaxTickCalls == 6

\* --------------------------------------------------------------- constants
NULL == -1
Infinity == 1000000
MIN_REP_DURATION_MS == 400
MIN_CALIBRATION_FRAMES == 15
MIN_STABLE_FRAMES == 5
MIN_Y_CHANGE_RATIO == 15
DEBOUNCE_MS == 150
HISTORY_CAPACITY == 60
PERSPECTIVE_CAPACITY == 15
PERSPECTIVE_MIN_COUNT == 5
ANGLE_STABILITY == 10
DEFAULT_SETS == 3
Y_STABILITY == 15

ExerciseTypes ==
  {"pushups", "pullups", "situps", "squats", "deadlift", "muscleup", "dips"}

\* front thresholds are in hundredths (0.65 -> 65)
EXERCISE_THRESHOLDS ==
  [e \in ExerciseTypes |->
    CASE e = "pushups"  -> [upAngle |-> 150, downAngle |-> 100, minAngleChange |-> 40,
                            downThreshold |-> 65, upThreshold |-> 35, minROM |-> 50]
      [] e = "pullups"  -> [upAngle |-> 70, downAngle |-> 150, minAngleChange |-> 50,
                            downThreshold |-> 70, upThreshold |-> 30, minROM |-> 60]
      [] e = "situps"   -> [upAngle |-> 80, downAngle |-> 140, minAngleChange |-> 40,
                            downThreshold |-> 60, upThreshold |-> 40, minROM |-> 40]
      [] e = "squats"   -> [upAngle |-> 160, downAngle |-> 100, minAngleChange |-> 40,
                            downThreshold |-> 60, upThreshold |-> 35, minROM |-> 50]
      [] e = "deadlift" -> [upAngle |-> 160, downAngle |-> 100, minAngleChange |-> 40,
                            downThreshold |-> 60, upThreshold |-> 35, minROM |-> 50]
      [] e = "muscleup" -> [upAngle |-> 160, downAngle |-> 70, minAngleChange |-> 60,
                            downThreshold |-> 70, upThreshold |-> 25, minROM |-> 70]
      [] e = "dips"     -> [upAngle |-> 160, downAngle |-> 100, minAngleChange |-> 40,
                            downThreshold |-> 60, upThreshold |-> 35, minROM |-> 50]]

\* ----------------------------------------------------------------- helpers
Abs(x) == IF x < 0 THEN -x ELSE x
\* variant: the larger of the two
Min2Larger(a, b) == IF a > b THEN a ELSE b

\* Math.min, Math.max
Min2(a, b) == IF a < b THEN a ELSE b
Max2(a, b) == IF a > b THEN a ELSE b

RECURSIVE Sum(_)
Sum(s) == IF s = << >> THEN 0 ELSE Head(s) + Sum(Tail(s))

\* recent.reduce((a, b) => a + b, 0) / recent.length, in sixtieths
Mean(recent) == (60 * Sum(recent)) \div Len(recent)

\* variant: a full history turns the new sample away
PushCappedKeepOldest(history, v, capacity) ==
  IF Len(history) >= capacity THEN history ELSE Append(history, v)

\* history.push(v); if (history.length > capacity) history.shift()
PushCapped(history, v, capacity) ==
  LET pushed == Append(history, v)
  IN  IF Len(pushed) > capacity THEN Tail(pushed) ELSE pushed

\* history.slice(-MIN_STABLE_FRAMES) of the history after push(v)
PushRecent(recent, v) ==
  LET a == Append(recent, v)
  IN  IF Len(a) > MIN_STABLE_FRAMES THEN Tail(a) ELSE a

\* history.length after push(v) and the shift() at capacity
PushLength(len) == IF len + 1 > HISTORY_CAPACITY THEN len ELSE len + 1

VARIABLES
  currentExercise, phase, baselineAngle, baselineY,
  minAngle, maxAngle, minY, maxY,
  timeSinceLastChange, repDuration,
  formIssues, angleHistory, angleHistoryLength, yHistory, yHistoryLength,
  repCount, currentPerspective, perspectiveHistory, frameCount,
  repData,
  \* Observation of the run since the last reset (not engine state):
  \*   emitted          number of records returned
  \*   sinceLastRecord  time since the last record was returned
  \*   recordGap        time between the last two records returned
  \*   changeGap        time between the last two phase changes
  \*   lowestAngle      smallest angle sample seen
  \*   crossStatus, sinceOnsetCross
  \*                    threshold crossings of the angle signal since
  \*                    calibration completed (see Crossing)
  \*   elapsed          time between the last two calls of detectRep
  \*   lastBodyHeight   the bodyHeight getPrimaryValue() returned with the
  \*                    last yPosition it returned
  \*   discarded        the repetitions the counter held when reset() last
  \*                    ran, 0 once a frame has been processed since
  emitted, sinceLastRecord, recordGap, changeGap, lowestAngle,
  crossStatus, sinceOnsetCross, elapsed, lastBodyHeight, discarded,
  \* The two kinds of history buffer on their own, fed with the arrival
  \* numbers 1, 2, 3, ... of their samples:
  \*   sampleBuffer     a history of capacity 60 (angleHistory, yHistory)
  \*   viewBuffer       a history of capacity 15 (perspectiveHistory)
  sampleBuffer, sampleArrivals, viewBuffer, viewArrivals,
  \* calculateFormScore() on its own, applied to an issue list that grows and
  \* worsens while its other inputs are held:
  \*   scorerInput      the exercise, perspective, range of motion and frame
  \*   injectedIssues   the issue list
  \*   injectedScore    the form score of that list
  scorerInput, injectedIssues, injectedScore,
  \* getKeypoint() of the pose detection service on its own:
  \*   poseKeypoints     the keypoint array of a pose, by keypoint name
  \*   requestedName     the name passed to the last call ("none" before)
  \*   returnedKeypoint  what that call returned
  poseKeypoints, requestedName, returnedKeypoint,
  \* A continuation of frames fed to the engine with no further reset:
  \*   continuation     "none", "feeding" while it runs, "counted" once it
  \*                    has made the engine return a record
  \*   fed              the frames fed by it
  continuation, fed,
  \* The speech service and the browser's synthesizer:
  \*   synthesis        whether initialize() has found window.speechSynthesis
  \*   speechEnabled    settings.enabled
  \*   messageQueue     the texts waiting in the service
  \*   isSpeaking       the service's flag
  \*   synthesisQueue   the utterances submitted with synthesis.speak() that
  \*                    have neither ended nor failed nor been cancelled, in
  \*                    order; only the first can have started
  \*   cancelledUtterances  the utterances removed by synthesis.cancel()
  \*                    whose end or error event is still to be delivered
  \*   pendingTimers    the setTimeout(processQueue, 100) callbacks pending
  \*   speakCalls       the calls of speak() made
  synthesis, speechEnabled, messageQueue, isSpeaking, synthesisQueue,
  cancelledUtterances, pendingTimers, speakCalls,
  \* The workout store and the components that drive it:
  \*   workoutPhase     the store's phase
  \*   hasSession       currentSession !== null
  \*   currentSetIndex  the store's currentSetIndex
  \*   currentReps      currentReps.length
  \*   sessionSets      currentSession.sets.length
  \*   totalReps        currentSession.totalReps
  \*   repsAdded        the calls of addRep since startWorkout
  \*   configSets       config.sets
  \*   appView          the view App renders; WorkoutDisplay is mounted
  \*                    while it is "workout"
  \*   isPaused         WorkoutDisplay's isPaused
  \*   countdownRunning, restRunning   isRunning of WorkoutDisplay's timers
  \*   setTimers        the setTimeout(onSetComplete, 500) callbacks pending
  workoutPhase, hasSession, currentSetIndex, currentReps, configSets,
  appView, isPaused, countdownRunning, restRunning, setTimers,
  sessionSets, totalReps, repsAdded,
  \* The detection loop of usePoseDetection:
  \*   isRunningRef     isRunningRef.current
  \*   animationFrameRef  "null", or the request it names: "pending" or
  \*                    "stale" (already run)
  \*   otherFrames      the pending animation-frame requests that
  \*                    animationFrameRef no longer names
  \*   estimating       the invocations of detect() that await
  \*                    detectPose(), counted by the isActive each captured
  isRunningRef, animationFrameRef, otherFrames, estimating,
  \* One useTimer hook:
  \*   time             its time state
  \*   isRunning        its isRunning state
  \*   intervalRef      "null", or "set" while its interval is live
  \*   countdownOption  the countdown option it was given
  \*   startTime        the time it had when it was last started
  \*   completeCalls    calls of onComplete since the timer was last
  \*                    started or reset
  \*   tickCalls        calls of onTick since then
  time, isRunning, intervalRef, countdownOption, startTime, completeCalls, tickCalls

engineVars ==
  <<currentExercise, phase, baselineAngle, baselineY,
    minAngle, maxAngle, minY, maxY,
    timeSinceLastChange, repDuration,
    formIssues, angleHistory, angleHistoryLength, yHistory, yHistoryLength,
    repCount, currentPerspective, perspectiveHistory, frameCount,
    repData>>

observerVars ==
  <<emitted, sinceLastRecord, recordGap, changeGap, lowestAngle,
    crossStatus, sinceOnsetCross, elapsed, lastBodyHeight, discarded>>

bufferVars == <<sampleBuffer, sampleArrivals, viewBuffer, viewArrivals>>

scorerVars == <<scorerInput, injectedIssues, injectedScore>>

keypointVars == <<poseKeypoints, requestedName, returnedKeypoint>>

continuationVars == <<continuation, fed>>
speechVars ==
  <<synthesis, speechEnabled, messageQueue, isSpeaking, synthesisQueue,
    cancelledUtterances, pendingTimers, speakCalls>>

\* what the engine's operations, and those of each other part, leave alone
workoutVars ==
  <<workoutPhase, hasSession, currentSetIndex, currentReps, configSets,
    appView, isPaused, countdownRunning, restRunning, setTimers,
    sessionSets, totalReps, repsAdded>>
detectionVars == <<isRunningRef, animationFrameRef, otherFrames, estimating>>
timerVars == <<time, isRunning, intervalRef, countdownOption, startTime, completeCalls, tickCalls>>
besideEngine == <<bufferVars, scorerVars, keypointVars, speechVars, workoutVars, detectionVars, timerVars>>
besideBuffers == <<engineVars, observerVars, scorerVars, keypointVars, continuationVars, speechVars, workoutVars, detectionVars, timerVars>>
besideScorer == <<engineVars, observerVars, bufferVars, keypointVars, continuationVars, speechVars, workoutVars, detectionVars, timerVars>>
besideKeypoints == <<engineVars, observerVars, bufferVars, scorerVars, continuationVars, speechVars, workoutVars, detectionVars, timerVars>>
besideSpeech == <<engineVars, observerVars, bufferVars, scorerVars, keypointVars, continuationVars, workoutVars, detectionVars, timerVars>>
besideWorkout == <<engineVars, observerVars, bufferVars, scorerVars, keypointVars, continuationVars, speechVars, detectionVars, timerVars>>
besideDetection == <<engineVars, observerVars, bufferVars, scorerVars, keypointVars, continuationVars, speechVars, timerVars>>
besideTimer == <<engineVars, observerVars, bufferVars, scorerVars, keypointVars, continuationVars, speechVars, workoutVars, detectionVars>>

vars == <<engineVars, observerVars, besideEngine, continuationVars>>

\* ------------------------------------------------------------------ frames
\* What one keypoint set yields: detectPerspective(), getPrimaryValue(),
\* checkBodyAlignment(), and for squats the knee/ankle widths of checkForm()
\* and the knee-angle difference of calculateFormScore().
FrameOf(d, a, y, h, al, kc, ks) ==
  [detected |-> d, angle |-> a, yPosition |-> y, bodyHeight |-> h,
   alignment |-> al, kneeCave |-> kc, kneeSymmetry |-> ks]

\* ------------------------------------------------------ perspective filter
Count(history, p) == Cardinality({i \in DOMAIN history : history[i] = p})

\* variant: a strict majority is enough, however small
UpdatePerspectiveNoMinimum(history, current, detected) ==
  IF detected = "unknown"
  THEN [history |-> history, current |-> current]
  ELSE LET h == PushCapped(history, detected, PERSPECTIVE_CAPACITY)
           frontCount == Count(h, "front")
           sideCount == Count(h, "side")
       IN  [history |-> h,
            current |-> IF frontCount > sideCount THEN "front"
                        ELSE IF sideCount > frontCount THEN "side"
                        ELSE current]

\* updatePerspective(): the detected category is pushed and the visible
\* perspective follows a strict majority of at least PERSPECTIVE_MIN_COUNT
UpdatePerspective(history, current, detected) ==
  IF detected = "unknown"
  THEN [history |-> history, current |-> current]
  ELSE LET h == PushCapped(history, detected, PERSPECTIVE_CAPACITY)
           frontCount == Count(h, "front")
           sideCount == Count(h, "side")
       IN  [history |-> h,
            current |-> IF frontCount > sideCount /\ frontCount >= PERSPECTIVE_MIN_COUNT
                          THEN "front"
                        ELSE IF sideCount > frontCount /\ sideCount >= PERSPECTIVE_MIN_COUNT
                          THEN "side"
                        ELSE current]

\* ------------------------------------------------------------- calibration
\* variant: stability judged by the number of samples alone
IsStablePositionBySize(recent, threshold) == Len(recent) >= MIN_STABLE_FRAMES

\* recent = history.slice(-MIN_STABLE_FRAMES); it holds fewer than
\* MIN_STABLE_FRAMES samples exactly when history.length < MIN_STABLE_FRAMES
IsStablePosition(recent, threshold) ==
  IF Len(recent) < MIN_STABLE_FRAMES
  THEN FALSE
  ELSE LET avg == Mean(recent)
       IN  \A i \in DOMAIN recent : Abs(60 * recent[i] - avg) < 60 * threshold

\* variant: muscle-ups taken for a standard exercise
IsInvertedPullupsOnly(exercise) == exercise = "pullups"

\* pull-ups and muscle-ups start extended and contract upwards
IsInverted(exercise) == exercise \in {"pullups", "muscleup"}

\* ------------------------------------------------------- phase transitions
\* variant: the closure reports completion but leaves the phase Active
CheckRepByAngleUnclosed(exercise, ph, baseline, angle) ==
  LET thresholds == EXERCISE_THRESHOLDS[exercise]
      stay == [phase |-> ph, started |-> FALSE, completed |-> FALSE]
  IN  IF /\ baseline # NULL
         /\ 2 * Abs(60 * angle - baseline) < 60 * thresholds.minAngleChange
         /\ ph = "ready"
      THEN stay
      ELSE IF IsInverted(exercise)
      THEN CASE ph = "ready" /\ angle < thresholds.upAngle ->
                  [phase |-> "up", started |-> TRUE, completed |-> FALSE]
             [] ph = "up" /\ angle > thresholds.downAngle ->
                  [phase |-> "up", started |-> FALSE, completed |-> TRUE]
             [] OTHER -> stay
      ELSE CASE ph = "ready" /\ angle < thresholds.downAngle ->
                  [phase |-> "down", started |-> TRUE, completed |-> FALSE]
             [] ph = "down" /\ angle > thresholds.upAngle ->
                  [phase |-> "down", started |-> FALSE, completed |-> TRUE]
             [] OTHER -> stay

\* variant: the onset compared with the return threshold
CheckRepByAngleEarly(exercise, ph, baseline, angle) ==
  LET thresholds == EXERCISE_THRESHOLDS[exercise]
      stay == [phase |-> ph, started |-> FALSE, completed |-> FALSE]
  IN  IF /\ baseline # NULL
         /\ 2 * Abs(60 * angle - baseline) < 60 * thresholds.minAngleChange
         /\ ph = "ready"
      THEN stay
      ELSE IF IsInverted(exercise)
      THEN CASE ph = "ready" /\ angle < thresholds.downAngle ->
                  [phase |-> "up", started |-> TRUE, completed |-> FALSE]
             [] ph = "up" /\ angle > thresholds.downAngle ->
                  [phase |-> "ready", started |-> FALSE, completed |-> TRUE]
             [] OTHER -> stay
      ELSE CASE ph = "ready" /\ angle < thresholds.upAngle ->
                  [phase |-> "down", started |-> TRUE, completed |-> FALSE]
             [] ph = "down" /\ angle > thresholds.upAngle ->
                  [phase |-> "ready", started |-> FALSE, completed |-> TRUE]
             [] OTHER -> stay

\* variant: no test of the change from the baseline
CheckRepByAngleUnchecked(exercise, ph, baseline, angle) ==
  LET thresholds == EXERCISE_THRESHOLDS[exercise]
      stay == [phase |-> ph, started |-> FALSE, completed |-> FALSE]
  IN  IF IsInverted(exercise)
      THEN CASE ph = "ready" /\ angle < thresholds.upAngle ->
                  [phase |-> "up", started |-> TRUE, completed |-> FALSE]
             [] ph = "up" /\ angle > thresholds.downAngle ->
                  [phase |-> "ready", started |-> FALSE, completed |-> TRUE]
             [] OTHER -> stay
      ELSE CASE ph = "ready" /\ angle < thresholds.downAngle ->
                  [phase |-> "down", started |-> TRUE, completed |-> FALSE]
             [] ph = "down" /\ angle > thresholds.upAngle ->
                  [phase |-> "ready", started |-> FALSE, completed |-> TRUE]
             [] OTHER -> stay

\* result: the new phase, whether repStartTime was set, whether the call
\* returned true
CheckRepByAngle(exercise, ph, baseline, angle) ==
  LET thresholds == EXERCISE_THRESHOLDS[exercise]
      stay == [phase |-> ph, started |-> FALSE, completed |-> FALSE]
  IN  IF /\ baseline # NULL
         /\ 2 * Abs(60 * angle - baseline) < 60 * thresholds.minAngleChange
         /\ ph = "ready"
      THEN stay
      ELSE IF IsInverted(exercise)
      THEN CASE ph = "ready" /\ angle < thresholds.upAngle ->
                  [phase |-> "up", started |-> TRUE, completed |-> FALSE]
             [] ph = "up" /\ angle > thresholds.downAngle ->
                  [phase |-> "ready", started |-> FALSE, completed |-> TRUE]
             [] OTHER -> stay
      ELSE CASE ph = "ready" /\ angle < thresholds.downAngle ->
                  [phase |-> "down", started |-> TRUE, completed |-> FALSE]
             [] ph = "down" /\ angle > thresholds.upAngle ->
                  [phase |-> "ready", started |-> FALSE, completed |-> TRUE]
             [] OTHER -> stay

\* variant: no minimum range
CheckRepByPositionAnyRange(exercise, ph, baseY, yLength, mnY, mxY, yPosition, bodyHeight) ==
  LET thresholds == EXERCISE_THRESHOLDS[exercise]
      stay == [phase |-> ph, started |-> FALSE, completed |-> FALSE]
      yRange == mxY - mnY
      num == 100 * (yPosition - mnY)
  IN  IF baseY = NULL THEN stay
      ELSE IF yLength < 10 THEN stay
      ELSE IF IsInverted(exercise)
      THEN CASE ph = "ready" /\ num < thresholds.upThreshold * yRange ->
                  [phase |-> "up", started |-> TRUE, completed |-> FALSE]
             [] ph = "up" /\ num > thresholds.downThreshold * yRange ->
                  [phase |-> "ready", started |-> FALSE, completed |-> TRUE]
             [] OTHER -> stay
      ELSE CASE ph = "ready" /\ num > thresholds.downThreshold * yRange ->
                  [phase |-> "down", started |-> TRUE, completed |-> FALSE]
             [] ph = "down" /\ num < thresholds.upThreshold * yRange ->
                  [phase |-> "ready", started |-> FALSE, completed |-> TRUE]
             [] OTHER -> stay

\* normalizedY = (yPosition - minY) / yRange is compared in hundredths
CheckRepByPosition(exercise, ph, baseY, yLength, mnY, mxY, yPosition, bodyHeight) ==
  LET thresholds == EXERCISE_THRESHOLDS[exercise]
      stay == [phase |-> ph, started |-> FALSE, completed |-> FALSE]
      yRange == mxY - mnY
      num == 100 * (yPosition - mnY)
  IN  IF baseY = NULL THEN stay
      ELSE IF yLength < 10 THEN stay
      ELSE IF 100 * yRange < bodyHeight * MIN_Y_CHANGE_RATIO THEN stay
      ELSE IF IsInverted(exercise)
      THEN CASE ph = "ready" /\ num < thresholds.upThreshold * yRange ->
                  [phase |-> "up", started |-> TRUE, completed |-> FALSE]
             [] ph = "up" /\ num > thresholds.downThreshold * yRange ->
                  [phase |-> "ready", started |-> FALSE, completed |-> TRUE]
             [] OTHER -> stay
      ELSE CASE ph = "ready" /\ num > thresholds.downThreshold * yRange ->
                  [phase |-> "down", started |-> TRUE, completed |-> FALSE]
             [] ph = "down" /\ num < thresholds.upThreshold * yRange ->
                  [phase |-> "ready", started |-> FALSE, completed |-> TRUE]
             [] OTHER -> stay

\* ------------------------------------------------------------------ scorer
\* variant: the ideal range taken as the half turn
CalculateROMOverHalfTurn(exercise, perspective, mnA, mxA, mnY, mxY) ==
  IF perspective = "side"
  THEN Min2(3600, Max2(0, (3600 * Abs(mxA - mnA)) \div 180))
  ELSE IF perspective = "front"
  THEN Min2(3600, Max2(0, 45 * (mxY - mnY)))
  ELSE 70 * 36

\* range of motion in 36ths of a percent (0 .. 3600)
CalculateROM(exercise, perspective, mnA, mxA, mnY, mxY) ==
  LET thresholds == EXERCISE_THRESHOLDS[exercise]
  IN  IF perspective = "side"
      THEN LET idealRange == Abs(thresholds.upAngle - thresholds.downAngle)
               actualRange == Abs(mxA - mnA)
           IN  Min2(3600, Max2(0, (3600 * actualRange) \div idealRange))
      ELSE IF perspective = "front"
      THEN Min2(3600, Max2(0, 45 * (mxY - mnY)))
      ELSE 70 * 36

SeverityCount(issues, sev) ==
  Cardinality({i \in DOMAIN issues : issues[i].severity = sev})

\* variant: a minor issue adds to the score
CalculateFormScoreRewarding(exercise, perspective, rom, f, issues) ==
  LET minROM == EXERCISE_THRESHOLDS[exercise].minROM
      romPenalty == IF rom < 36 * minROM THEN 4 * (36 * minROM - rom) ELSE 0
      sidePenalty ==
        IF perspective # "side" THEN 0
        ELSE IF exercise = "pushups"
          THEN (IF f.alignment < 70 THEN 108 * (70 - f.alignment) ELSE 0)
        ELSE IF exercise = "squats"
          THEN (IF f.kneeSymmetry > 20 THEN 72 * f.kneeSymmetry ELSE 0)
        ELSE 0
      score == 36000 - romPenalty - sidePenalty
                 - 3600 * SeverityCount(issues, "major")
                 - 1800 * SeverityCount(issues, "moderate")
                 + 720 * SeverityCount(issues, "minor")
  IN  Max2(0, Min2(36000, score))

\* form score in 360ths of a point (0 .. 36000); the penalties 0.4, 0.3,
\* 0.2, 10, 5 and 2 of calculateFormScore() are 144, 108, 72, 3600, 1800
\* and 720 (rom is in 36ths, so its factor is 4)
CalculateFormScore(exercise, perspective, rom, f, issues) ==
  LET minROM == EXERCISE_THRESHOLDS[exercise].minROM
      romPenalty == IF rom < 36 * minROM THEN 4 * (36 * minROM - rom) ELSE 0
      sidePenalty ==
        IF perspective # "side" THEN 0
        ELSE IF exercise = "pushups"
          THEN (IF f.alignment < 70 THEN 108 * (70 - f.alignment) ELSE 0)
        ELSE IF exercise = "squats"
          THEN (IF f.kneeSymmetry > 20 THEN 72 * f.kneeSymmetry ELSE 0)
        ELSE 0
      score == 36000 - romPenalty - sidePenalty
                 - 3600 * SeverityCount(issues, "major")
                 - 1800 * SeverityCount(issues, "moderate")
                 - 720 * SeverityCount(issues, "minor")
  IN  Max2(0, Min2(36000, score))

\* variant: a major issue does not invalidate the repetition
IsRepValidDespiteMajor(exercise, rom, formScore, duration, issues) ==
  LET minROM == EXERCISE_THRESHOLDS[exercise].minROM
  IN  5 * rom >= 108 * minROM /\ formScore >= 50 * 360 /\ duration >= MIN_REP_DURATION_MS

\* isRepValid(): rom is in 36ths, so rom >= minROM * 0.6 is 5 rom >= 108 minROM
IsRepValid(exercise, rom, formScore, duration, issues) ==
  LET minROM == EXERCISE_THRESHOLDS[exercise].minROM
      romValid == 5 * rom >= 108 * minROM
      formValid == formScore >= 50 * 360
      durationValid == duration >= MIN_REP_DURATION_MS
      noMajorIssues == SeverityCount(issues, "major") = 0
  IN  romValid /\ formValid /\ durationValid /\ noMajorIssues

\* variant: repNumber taken from the counter before it is incremented
CreateRepDataUnnumbered(exercise, perspective, count, mnA, mxA, mnY, mxY, f, issues, duration) ==
  LET rom == CalculateROM(exercise, perspective, mnA, mxA, mnY, mxY)
      formScore == CalculateFormScore(exercise, perspective, rom, f, issues)
  IN  [repNumber |-> count,
       duration |-> duration,
       isValid |-> IsRepValid(exercise, rom, formScore, duration, issues),
       formScore |-> formScore,
       rangeOfMotion |-> rom,
       issues |-> [i \in DOMAIN issues |-> issues[i].type]]

CreateRepData(exercise, perspective, count, mnA, mxA, mnY, mxY, f, issues, duration) ==
  LET rom == CalculateROM(exercise, perspective, mnA, mxA, mnY, mxY)
      formScore == CalculateFormScore(exercise, perspective, rom, f, issues)
  IN  [repNumber |-> count + 1,
       duration |-> duration,
       isValid |-> IsRepValid(exercise, rom, formScore, duration, issues),
       formScore |-> formScore,
       rangeOfMotion |-> rom,
       issues |-> [i \in DOMAIN issues |-> issues[i].type]]

\* ------------------------------------------------------------- form issues
\* variant: every detection is appended
AddFormIssueAlways(issues, issue) == Append(issues, issue)

\* if (!formIssues.find(i => i.type === issue.type)) formIssues.push(issue)
AddFormIssue(issues, issue) ==
  IF \E i \in DOMAIN issues : issues[i].type = issue.type
  THEN issues
  ELSE Append(issues, issue)

CheckForm(exercise, perspective, issues, f) ==
  IF perspective # "side" THEN issues
  ELSE IF exercise = "pushups" /\ f.alignment < 50
    THEN AddFormIssue(issues,
           [type |-> "alignment",
            severity |-> IF f.alignment < 30 THEN "major" ELSE "moderate"])
  ELSE IF exercise = "squats" /\ f.kneeCave
    THEN AddFormIssue(issues, [type |-> "kneeCave", severity |-> "major"])
  ELSE issues

\* ------------------------------------------------------ checkRepCompletion
\* variant: no debounce
DebouncedNever(tslc) == FALSE

\* variant: a shorter debounce interval
DebouncedBelowHundred(tslc) == tslc < 100

\* if (timeSinceLastChange < 150) return null
Debounced(tslc) == tslc < DEBOUNCE_MS

\* variant: every closure is discarded as too fast
TooFastAlways(rdur) == TRUE

\* variant: the duration compared with the debounce interval
TooFastByDebounce(rdur) == rdur < DEBOUNCE_MS

\* variant: no minimum duration
TooFastNever(rdur) == FALSE

\* if (repDuration < MIN_REP_DURATION_MS) { ...ignoring...; return null }
TooFast(rdur) == rdur < MIN_REP_DURATION_MS

\* variant: the issue list is carried over a returned record
CheckRepCompletionCarrying(exercise, perspective, ph, baseA, baseY, yLength, mnA, mxA, mnY, mxY, issues, count, f, tslc, rdur) ==
  LET keep == [phase |-> ph, timeSinceLastChange |-> tslc, repDuration |-> rdur,
               minAngle |-> mnA, maxAngle |-> mxA, minY |-> mnY, maxY |-> mxY,
               formIssues |-> issues, repCount |-> count, repData |-> << >>]
      stay == [phase |-> ph, started |-> FALSE, completed |-> FALSE]
      t == IF perspective = "side" /\ f.angle # NULL
             THEN CheckRepByAngle(exercise, ph, baseA, f.angle)
           ELSE IF perspective = "front" /\ f.yPosition # NULL /\ f.bodyHeight # NULL
             THEN CheckRepByPosition(exercise, ph, baseY, yLength, mnY, mxY,
                                     f.yPosition, f.bodyHeight)
           ELSE IF f.angle # NULL
             THEN CheckRepByAngle(exercise, ph, baseA, f.angle)
           ELSE stay
      changed == t.phase # ph
      tslc2 == IF changed THEN 0 ELSE tslc
      rdur2 == IF t.started THEN 0 ELSE rdur
  IN  IF exercise \notin DOMAIN EXERCISE_THRESHOLDS THEN keep
      ELSE IF Debounced(tslc) THEN keep
      ELSE IF t.completed
      THEN IF TooFast(rdur2)
           THEN [keep EXCEPT !.phase = t.phase, !.timeSinceLastChange = tslc2]
           ELSE [phase |-> t.phase, timeSinceLastChange |-> tslc2,
                 repDuration |-> rdur2,
                 minAngle |-> 180, maxAngle |-> 0, minY |-> Infinity, maxY |-> 0,
                 formIssues |-> issues, repCount |-> count + 1,
                 repData |-> << CreateRepData(exercise, perspective, count,
                                              mnA, mxA, mnY, mxY, f, issues, rdur2) >>]
      ELSE [keep EXCEPT !.phase = t.phase, !.timeSinceLastChange = tslc2,
                        !.repDuration = rdur2,
                        !.formIssues = CheckForm(exercise, perspective, issues, f)]

\* tslc = now - lastPhaseChangeTime and rdur = now - repStartTime at this call.
\* The result holds the fields the call leaves behind and its return value.
CheckRepCompletion(exercise, perspective, ph, baseA, baseY, yLength, mnA, mxA, mnY, mxY, issues, count, f, tslc, rdur) ==
  LET keep == [phase |-> ph, timeSinceLastChange |-> tslc, repDuration |-> rdur,
               minAngle |-> mnA, maxAngle |-> mxA, minY |-> mnY, maxY |-> mxY,
               formIssues |-> issues, repCount |-> count, repData |-> << >>]
      stay == [phase |-> ph, started |-> FALSE, completed |-> FALSE]
      t == IF perspective = "side" /\ f.angle # NULL
             THEN CheckRepByAngle(exercise, ph, baseA, f.angle)
           ELSE IF perspective = "front" /\ f.yPosition # NULL /\ f.bodyHeight # NULL
             THEN CheckRepByPosition(exercise, ph, baseY, yLength, mnY, mxY,
                                     f.yPosition, f.bodyHeight)
           ELSE IF f.angle # NULL
             THEN CheckRepByAngle(exercise, ph, baseA, f.angle)
           ELSE stay
      changed == t.phase # ph
      tslc2 == IF changed THEN 0 ELSE tslc
      rdur2 == IF t.started THEN 0 ELSE rdur
  IN  IF exercise \notin DOMAIN EXERCISE_THRESHOLDS THEN keep
      ELSE IF Debounced(tslc) THEN keep
      ELSE IF t.completed
      THEN IF TooFast(rdur2)
           THEN [keep EXCEPT !.phase = t.phase, !.timeSinceLastChange = tslc2]
           ELSE [phase |-> t.phase, timeSinceLastChange |-> tslc2,
                 repDuration |-> rdur2,
                 minAngle |-> 180, maxAngle |-> 0, minY |-> Infinity, maxY |-> 0,
                 formIssues |-> << >>, repCount |-> count + 1,
                 repData |-> << CreateRepData(exercise, perspective, count,
                                              mnA, mxA, mnY, mxY, f, issues, rdur2) >>]
      ELSE [keep EXCEPT !.phase = t.phase, !.timeSinceLastChange = tslc2,
                        !.repDuration = rdur2,
                        !.formIssues = CheckForm(exercise, perspective, issues, f)]

\* ---------------------------------------------------------------- observer
\* The conditions on the angle signal that the thresholds of an exercise
\* stand for: past the onset threshold (the contracted position) and past the
\* return threshold (back at rest).
OnsetThreshold(exercise) ==
  IF IsInverted(exercise) THEN EXERCISE_THRESHOLDS[exercise].upAngle
                          ELSE EXERCISE_THRESHOLDS[exercise].downAngle
ReturnThreshold(exercise) ==
  IF IsInverted(exercise) THEN EXERCISE_THRESHOLDS[exercise].downAngle
                          ELSE EXERCISE_THRESHOLDS[exercise].upAngle
PastOnset(exercise, a) == a < OnsetThreshold(exercise)
PastReturn(exercise, a) == a > ReturnThreshold(exercise)

\* Crossings of the angle signal between two consecutive samples, followed
\* from the frame after calibration completes:
\*   "none"   no crossing yet
\*   "onset"  one crossing, of the onset threshold, on which the engine went
\*            from Ready to Active
\*   "cycle"  that onset crossing, then, MIN_REP_DURATION_MS or more later,
\*            one crossing of the return threshold, and nothing else
\*   "other"  any other sequence of crossings
Crossing(exercise, status, age, prev, cur, taken) ==
  LET onsetX == ~PastOnset(exercise, prev) /\ PastOnset(exercise, cur)
      returnX == ~PastReturn(exercise, prev) /\ PastReturn(exercise, cur)
  IN  IF ~onsetX /\ ~returnX THEN status
      ELSE IF status = "none" /\ onsetX /\ taken THEN "onset"
      ELSE IF status = "onset" /\ returnX /\ age >= MIN_REP_DURATION_MS THEN "cycle"
      ELSE "other"

\* dt = Date.now() of this call minus Date.now() of the previous call
Advance(clock, dt) == Min2(ClockCap, clock + dt)

Observe(f, dt) ==
  LET age == Advance(sinceOnsetCross, dt)
      followed == phase # "calibrating" /\ f.angle # NULL /\ angleHistory # << >>
      status == IF followed
                  THEN Crossing(currentExercise, crossStatus, age,
                                angleHistory[Len(angleHistory)], f.angle,
                                phase = "ready" /\ phase' \in {"down", "up"})
                  ELSE crossStatus
  IN  /\ emitted' = emitted + Len(repData')
      /\ sinceLastRecord' = IF repData' # << >> THEN 0 ELSE Advance(sinceLastRecord, dt)
      /\ recordGap' = IF repData' # << >> THEN Advance(sinceLastRecord, dt) ELSE recordGap
      /\ changeGap' = IF phase' # phase THEN Advance(timeSinceLastChange, dt) ELSE changeGap
      /\ lowestAngle' = IF f.angle # NULL THEN Min2(lowestAngle, f.angle) ELSE lowestAngle
      /\ crossStatus' = status
      /\ sinceOnsetCross' = IF status = "onset" /\ crossStatus = "none" THEN 0 ELSE age
      /\ elapsed' = dt
      /\ lastBodyHeight' = IF f.yPosition # NULL THEN f.bodyHeight ELSE lastBodyHeight
      /\ discarded' = 0

ObserveReset ==
  /\ emitted' = 0
  /\ sinceLastRecord' = ClockCap
  /\ recordGap' = ClockCap
  /\ changeGap' = ClockCap
  /\ lowestAngle' = 180
  /\ crossStatus' = "none"
  /\ sinceOnsetCross' = ClockCap
  /\ elapsed' = 0
  /\ lastBodyHeight' = NULL
  /\ discarded' = repCount

\* --------------------------------------------------------------- detectRep
\* variant: the sample count compared with MIN_STABLE_FRAMES
CalibrateEarly(perspective, aHist, aLen, yHist, yLen, baseA, baseY, f, tslc) ==
  LET isAngleStable == aLen >= MIN_STABLE_FRAMES
                         /\ IsStablePosition(aHist, ANGLE_STABILITY)
      isYStable == yLen >= MIN_STABLE_FRAMES
                     /\ IsStablePosition(yHist, Y_STABILITY)
      calibrated == \/ perspective = "side" /\ isAngleStable
                    \/ perspective = "front" /\ isYStable
                    \/ perspective = "unknown" /\ (isAngleStable \/ isYStable)
  IN  IF calibrated
      THEN [phase |-> "ready",
            baselineAngle |-> IF f.angle # NULL THEN Mean(aHist) ELSE baseA,
            baselineY |-> IF f.yPosition # NULL THEN Mean(yHist) ELSE baseY,
            timeSinceLastChange |-> 0]
      ELSE [phase |-> "calibrating", baselineAngle |-> baseA, baselineY |-> baseY,
            timeSinceLastChange |-> tslc]

\* The calibrating branch: the fields it leaves behind
Calibrate(perspective, aHist, aLen, yHist, yLen, baseA, baseY, f, tslc) ==
  LET isAngleStable == aLen >= MIN_CALIBRATION_FRAMES
                         /\ IsStablePosition(aHist, ANGLE_STABILITY)
      isYStable == yLen >= MIN_CALIBRATION_FRAMES
                     /\ IsStablePosition(yHist, Y_STABILITY)
      calibrated == \/ perspective = "side" /\ isAngleStable
                    \/ perspective = "front" /\ isYStable
                    \/ perspective = "unknown" /\ (isAngleStable \/ isYStable)
  IN  IF calibrated
      THEN [phase |-> "ready",
            baselineAngle |-> IF f.angle # NULL THEN Mean(aHist) ELSE baseA,
            baselineY |-> IF f.yPosition # NULL THEN Mean(yHist) ELSE baseY,
            timeSinceLastChange |-> 0]
      ELSE [phase |-> "calibrating", baselineAngle |-> baseA, baselineY |-> baseY,
            timeSinceLastChange |-> tslc]

ProcessFrame(f, dt) ==
  LET tslc == Advance(timeSinceLastChange, dt)
      rdur == Advance(repDuration, dt)
      aHist == IF f.angle # NULL THEN PushRecent(angleHistory, f.angle) ELSE angleHistory
      aLen == IF f.angle # NULL THEN PushLength(angleHistoryLength) ELSE angleHistoryLength
      yHist == IF f.yPosition # NULL THEN PushRecent(yHistory, f.yPosition) ELSE yHistory
      yLen == IF f.yPosition # NULL THEN PushLength(yHistoryLength) ELSE yHistoryLength
      mnA == IF f.angle # NULL THEN Min2(minAngle, f.angle) ELSE minAngle
      mxA == IF f.angle # NULL THEN Max2(maxAngle, f.angle) ELSE maxAngle
      mnY == IF f.yPosition # NULL THEN Min2(minY, f.yPosition) ELSE minY
      mxY == IF f.yPosition # NULL THEN Max2(maxY, f.yPosition) ELSE maxY
  IN  /\ frameCount' = frameCount + 1
      /\ \E p \in {UpdatePerspective(perspectiveHistory, currentPerspective, f.detected)} :
           /\ perspectiveHistory' = p.history
           /\ currentPerspective' = p.current
      /\ angleHistory' = aHist
      /\ angleHistoryLength' = aLen
      /\ yHistory' = yHist
      /\ yHistoryLength' = yLen
      /\ IF phase = "calibrating"
         THEN /\ \E c \in {Calibrate(currentPerspective', aHist, aLen, yHist, yLen,
                                     baselineAngle, baselineY, f, tslc)} :
                   /\ phase' = c.phase
                   /\ baselineAngle' = c.baselineAngle
                   /\ baselineY' = c.baselineY
                   /\ timeSinceLastChange' = c.timeSinceLastChange
              /\ repDuration' = rdur
              /\ repData' = << >>
              /\ UNCHANGED <<minAngle, maxAngle, minY, maxY, formIssues, repCount>>
         ELSE /\ \E r \in {CheckRepCompletion(currentExercise, currentPerspective', phase,
                                              baselineAngle, baselineY, yLen,
                                              mnA, mxA, mnY, mxY, formIssues,
                                              repCount, f, tslc, rdur)} :
                   /\ phase' = r.phase
                   /\ timeSinceLastChange' = r.timeSinceLastChange
                   /\ repDuration' = r.repDuration
                   /\ minAngle' = r.minAngle
                   /\ maxAngle' = r.maxAngle
                   /\ minY' = r.minY
                   /\ maxY' = r.maxY
                   /\ formIssues' = r.formIssues
                   /\ repCount' = r.repCount
                   /\ repData' = r.repData
              /\ UNCHANGED <<baselineAngle, baselineY>>
      /\ Observe(f, dt)
      /\ UNCHANGED <<currentExercise, besideEngine>>

\* a call of detectRep() by the session under study, which is MaxFrames long
DetectRep(f, dt) ==
  /\ frameCount < MaxFrames
  /\ ProcessFrame(f, dt)
  /\ UNCHANGED continuationVars

\* ------------------------------------------------------ reset, setExercise
GetInitialState ==
  [phase |-> "calibrating", baselineAngle |-> NULL, baselineY |-> NULL,
   minAngle |-> 180, maxAngle |-> 0, minY |-> Infinity, maxY |-> 0,
   timeSinceLastChange |-> ClockCap, repDuration |-> ClockCap,
   formIssues |-> << >>,
   angleHistory |-> << >>, angleHistoryLength |-> 0,
   yHistory |-> << >>, yHistoryLength |-> 0]

\* variant: the counter and the baselines survive the reset
ResetKeepingProgress ==
  /\ phase' = GetInitialState.phase
  /\ minAngle' = GetInitialState.minAngle
  /\ maxAngle' = GetInitialState.maxAngle
  /\ minY' = GetInitialState.minY
  /\ maxY' = GetInitialState.maxY
  /\ timeSinceLastChange' = GetInitialState.timeSinceLastChange
  /\ repDuration' = GetInitialState.repDuration
  /\ formIssues' = GetInitialState.formIssues
  /\ angleHistory' = GetInitialState.angleHistory
  /\ angleHistoryLength' = GetInitialState.angleHistoryLength
  /\ yHistory' = GetInitialState.yHistory
  /\ yHistoryLength' = GetInitialState.yHistoryLength
  /\ currentPerspective' = "unknown"
  /\ perspectiveHistory' = << >>
  /\ frameCount' = 0
  /\ repData' = << >>
  /\ ObserveReset
  /\ UNCHANGED <<currentExercise, repCount, baselineAngle, baselineY, besideEngine, continuationVars>>

\* this.state = this.getInitialState(); the counter, the perspective, its
\* history and the frame count are cleared
Reset ==
  /\ phase' = GetInitialState.phase
  /\ baselineAngle' = GetInitialState.baselineAngle
  /\ baselineY' = GetInitialState.baselineY
  /\ minAngle' = GetInitialState.minAngle
  /\ maxAngle' = GetInitialState.maxAngle
  /\ minY' = GetInitialState.minY
  /\ maxY' = GetInitialState.maxY
  /\ timeSinceLastChange' = GetInitialState.timeSinceLastChange
  /\ repDuration' = GetInitialState.repDuration
  /\ formIssues' = GetInitialState.formIssues
  /\ angleHistory' = GetInitialState.angleHistory
  /\ angleHistoryLength' = GetInitialState.angleHistoryLength
  /\ yHistory' = GetInitialState.yHistory
  /\ yHistoryLength' = GetInitialState.yHistoryLength
  /\ repCount' = 0
  /\ currentPerspective' = "unknown"
  /\ perspectiveHistory' = << >>
  /\ frameCount' = 0
  /\ repData' = << >>
  /\ ObserveReset
  /\ UNCHANGED <<currentExercise, besideEngine, continuationVars>>

\* this.currentExercise = exercise; this.reset()
SetExercise(exercise) ==
  /\ currentExercise' = exercise
  /\ phase' = GetInitialState.phase
  /\ baselineAngle' = GetInitialState.baselineAngle
  /\ baselineY' = GetInitialState.baselineY
  /\ minAngle' = GetInitialState.minAngle
  /\ maxAngle' = GetInitialState.maxAngle
  /\ minY' = GetInitialState.minY
  /\ maxY' = GetInitialState.maxY
  /\ timeSinceLastChange' = GetInitialState.timeSinceLastChange
  /\ repDuration' = GetInitialState.repDuration
  /\ formIssues' = GetInitialState.formIssues
  /\ angleHistory' = GetInitialState.angleHistory
  /\ angleHistoryLength' = GetInitialState.angleHistoryLength
  /\ yHistory' = GetInitialState.yHistory
  /\ yHistoryLength' = GetInitialState.yHistoryLength
  /\ repCount' = 0
  /\ currentPerspective' = "unknown"
  /\ perspectiveHistory' = << >>
  /\ frameCount' = 0
  /\ repData' = << >>
  /\ ObserveReset
  /\ UNCHANGED <<besideEngine, continuationVars>>

\* field initialisers of the class (exercise 'pushups') and getInitialState()
InitEngine ==
  /\ currentExercise = "pushups"
  /\ phase = GetInitialState.phase
  /\ baselineAngle = GetInitialState.baselineAngle
  /\ baselineY = GetInitialState.baselineY
  /\ minAngle = GetInitialState.minAngle
  /\ maxAngle = GetInitialState.maxAngle
  /\ minY = GetInitialState.minY
  /\ maxY = GetInitialState.maxY
  /\ timeSinceLastChange = GetInitialState.timeSinceLastChange
  /\ repDuration = GetInitialState.repDuration
  /\ formIssues = GetInitialState.formIssues
  /\ angleHistory = GetInitialState.angleHistory
  /\ angleHistoryLength = GetInitialState.angleHistoryLength
  /\ yHistory = GetInitialState.yHistory
  /\ yHistoryLength = GetInitialState.yHistoryLength
  /\ repCount = 0
  /\ currentPerspective = "unknown"
  /\ perspectiveHistory = << >>
  /\ frameCount = 0
  /\ repData = << >>
  /\ emitted = 0
  /\ sinceLastRecord = ClockCap
  /\ recordGap = ClockCap
  /\ changeGap = ClockCap
  /\ lowestAngle = 180
  /\ crossStatus = "none"
  /\ sinceOnsetCross = ClockCap
  /\ elapsed = 0
  /\ lastBodyHeight = NULL
  /\ discarded = 0
  /\ sampleBuffer = << >> /\ sampleArrivals = 0
  /\ viewBuffer = << >> /\ viewArrivals = 0
  /\ continuation = "none" /\ fed = 0
  /\ synthesis = FALSE /\ speechEnabled = TRUE
  /\ messageQueue = << >> /\ isSpeaking = FALSE
  /\ synthesisQueue = << >> /\ cancelledUtterances = 0
  /\ pendingTimers = 0 /\ speakCalls = 0
  /\ workoutPhase = "setup" /\ hasSession = FALSE
  /\ currentSetIndex = 0 /\ currentReps = 0 /\ configSets = DEFAULT_SETS
  /\ sessionSets = 0 /\ totalReps = 0 /\ repsAdded = 0
  /\ appView = "home" /\ isPaused = FALSE
  /\ countdownRunning = FALSE /\ restRunning = FALSE /\ setTimers = 0
  /\ isRunningRef = FALSE /\ animationFrameRef = "null"
  /\ otherFrames = 0 /\ estimating = [active \in BOOLEAN |-> 0]
  /\ time = 0 /\ isRunning = FALSE /\ intervalRef = "null"
  /\ countdownOption = TRUE /\ startTime = 0 /\ completeCalls = 0 /\ tickCalls = 0

\* the scorer is not exercised on its own
ScorerIdle == scorerInput = NULL /\ injectedIssues = << >> /\ injectedScore = NULL

\* no call of getKeypoint() is followed
NoKeypoint == [present |-> FALSE, score |-> NULL]
KeypointsIdle ==
  poseKeypoints = << >> /\ requestedName = "none" /\ returnedKeypoint = NoKeypoint

Init == InitEngine /\ ScorerIdle /\ KeypointsIdle

\* ------------------------------------------------------------- environment
\* Frames the pose provider can deliver.  A joint angle needs the joint that
\* gives yPosition; bodyHeight needs shoulder and hip, and a perspective is
\* detected only when both shoulders and both hips are present.  The
\* alignment score matters for push-ups only, the knee measurements for
\* squats only.
\* The subject holds or alternates two poses while the engine calibrates and
\* moves through three afterwards: contracted, half way, extended.
Angles(exercise, ph) ==
  IF exercise = "pushups"
    THEN (IF ph = "calibrating" THEN {95, 172} ELSE {95, 140, 172})
    ELSE (IF ph = "calibrating" THEN {60, 172} ELSE {60, 120, 172})
Ys == {100, 200}
Delays == {120, 200, 450}

\* side view: the y of the tracked joint follows the joint angle
YOf(angle) == 272 - angle

\* The alignment score and the knee measurements are read by checkForm and
\* calculateFormScore only, which run after calibration, for push-ups and
\* squats respectively; elsewhere one value stands for all.
Alignments(exercise, ph) ==
  IF exercise = "pushups" /\ ph # "calibrating" THEN {0, 45, 60, 100} ELSE {100}
KneeCaves(exercise, ph) ==
  IF exercise = "squats" /\ ph # "calibrating" THEN BOOLEAN ELSE {FALSE}
KneeSymmetries(exercise, ph) ==
  IF exercise = "squats" /\ ph # "calibrating" THEN {0, 30} ELSE {0}

\* While calibrating both timestamps are 0 and no record has been returned,
\* so every clock is saturated and the delay between frames has no effect.
FrameDelays(ph) == IF ph = "calibrating" THEN {200} ELSE Delays

SideFrames(exercise, ph) ==
  { FrameOf("side", a, YOf(a), 100, al, kc, ks) :
      a \in Angles(exercise, ph), al \in Alignments(exercise, ph),
      kc \in KneeCaves(exercise, ph), ks \in KneeSymmetries(exercise, ph) }

\* front view: the limb is seen end-on, the joint angle reads as extended
FrontFrames == { FrameOf("front", 172, y, 100, 100, FALSE, 0) : y \in Ys }

\* no keypoint above the confidence floor (checkBodyAlignment returns 0)
LostFrame == FrameOf("unknown", NULL, NULL, NULL, 0, FALSE, 0)

\* While calibrating, a frame without keypoints changes frameCount only.
Frames(exercise, ph) ==
  SideFrames(exercise, ph) \cup FrontFrames
    \cup (IF ph = "calibrating" THEN {} ELSE {LostFrame})

\* the camera is not moved during a session: every frame that yields a
\* perspective yields the one the previous such frame yielded
SameCamera(f) ==
  IF f.detected = "unknown" \/ perspectiveHistory = << >>
  THEN TRUE
  ELSE perspectiveHistory[Len(perspectiveHistory)] = f.detected

Next ==
  \/ \E f \in Frames(currentExercise, phase), dt \in FrameDelays(phase) :
       SameCamera(f) /\ DetectRep(f, dt)
  \/ Reset
  \/ \E exercise \in ExerciseTypes : SetExercise(exercise)

Spec == Init /\ [][Next]_vars

\* ------------------------------------------------- push-up scenario (C9)
\* A subject doing push-ups in side view with no form deviation: the arm is
\* held at 170 degrees while the engine calibrates and then moves between
\* 95, 170 and 172 degrees; the alignment score stays at or above the 50 at
\* which checkForm raises an issue; the frames are 450 ms apart.
ScenarioAngles(ph) == IF ph = "calibrating" THEN {170} ELSE {95, 170, 172}
ScenarioAlignments(ph) == IF ph = "calibrating" THEN {100} ELSE {50, 60, 100}
ScenarioDelays == {450}

PushUpFrames(ph) ==
  { FrameOf("side", a, YOf(a), 100, al, FALSE, 0) :
      a \in ScenarioAngles(ph), al \in ScenarioAlignments(ph) }

NextPushUp ==
  \E f \in PushUpFrames(phase), dt \in ScenarioDelays : DetectRep(f, dt)

SpecPushUp == Init /\ [][NextPushUp]_vars

\* ------------------------------------------------ turning subject (C12)
\* A subject doing push-ups who is first seen from the front and then turns
\* to the side, moving all the while (the shoulder height alternates): both
\* shoulders and both hips stay visible, so every frame has a detected
\* perspective, a yPosition and a bodyHeight; the elbow or the wrist may be
\* hidden once the subject is seen from the side, and the frame then has no
\* angle.
TurnAngles(d, ph) ==
  IF d = "front" THEN {172}
  ELSE IF ph = "calibrating" THEN {NULL, 172} ELSE {NULL, 95, 172}
TurnDelays == {200}

TurnFrames(ph) ==
  { FrameOf(d, a, y, 100, 100, FALSE, 0) :
      d \in {"front", "side"}, a \in {NULL, 95, 172}, y \in Ys }

\* the subject turns once: no frontal frame after a lateral one
TurnsOnce(f) ==
  f.detected = "front" =>
    \A i \in DOMAIN perspectiveHistory : perspectiveHistory[i] = "front"

NextTurn ==
  \E f \in TurnFrames(phase), dt \in TurnDelays :
    /\ f.angle \in TurnAngles(f.detected, phase)
    /\ TurnsOnce(f)
    /\ DetectRep(f, dt)

SpecTurn == Init /\ [][NextTurn]_vars

\* ------------------------------------------- unchecked exercise type (C14)
\* setExercise() takes whatever string the caller passes (the components
\* pass the value of a select element cast to ExerciseType).  For a type
\* outside the switch of getPrimaryValue() a frame yields neither an angle
\* nor a yPosition; bodyHeight and the perspective come from the shoulders
\* and hips as for any type.
UnhandledType == "burpees"
AnyTypes == ExerciseTypes \cup {UnhandledType}

UnhandledFrames ==
  { FrameOf(d, NULL, NULL, 100, 100, FALSE, 0) : d \in {"side", "unknown"} }

AnyTypeFrames(exercise, ph) ==
  IF exercise \in ExerciseTypes
    THEN { FrameOf("side", a, YOf(a), 100, 100, FALSE, 0) : a \in ScenarioAngles(ph) }
    ELSE UnhandledFrames

NextAnyType ==
  \/ \E f \in AnyTypeFrames(currentExercise, phase), dt \in ScenarioDelays :
       DetectRep(f, dt)
  \/ Reset
  \/ \E exercise \in AnyTypes : SetExercise(exercise)

SpecAnyType == Init /\ [][NextAnyType]_vars

\* ------------------------------------------------- hidden hips (C15)
\* A subject doing push-ups seen from the front.  Once the engine is
\* calibrated the hips are at times hidden (below the confidence floor):
\* such a frame yields no perspective and no bodyHeight, while the shoulder,
\* elbow and wrist still give a yPosition and an elbow angle.
HipHiddenFrames(ph) ==
  IF ph = "calibrating" THEN {}
  ELSE { FrameOf("unknown", a, y, NULL, 100, FALSE, 0) : a \in {95, 172}, y \in Ys }

NextHipHidden ==
  \E f \in FrontFrames \cup HipHiddenFrames(phase), dt \in FrameDelays(phase) :
    DetectRep(f, dt)

SpecHipHidden == Init /\ [][NextHipHidden]_vars

\* ------------------------------------------------- undetected view (C16)
\* A subject doing push-ups of whom only one shoulder and one hip are ever
\* visible: detectPerspective() needs both of each and returns 'unknown' on
\* every frame, so the perspective stays unknown; a shoulder and a hip give
\* yPosition and bodyHeight; the elbow or the wrist is at times hidden, and
\* the frame then has no angle.  The subject holds still while the engine
\* calibrates; the frames are 200 ms apart.
UnknownViewAngles(ph) ==
  IF ph = "calibrating" THEN {NULL, 172} ELSE {NULL, 95, 172}

UnknownViewYs(ph) == IF ph = "calibrating" THEN {100} ELSE Ys

UnknownViewFrames(ph) ==
  { FrameOf("unknown", a, y, 100, 100, FALSE, 0) :
      a \in UnknownViewAngles(ph), y \in UnknownViewYs(ph) }

NextUnknownView ==
  \E f \in UnknownViewFrames(phase), dt \in TurnDelays : DetectRep(f, dt)

SpecUnknownView == Init /\ [][NextUnknownView]_vars

\* ------------------------------------------------- history buffers (C18)
\* The push-and-shift of detectRep() and updatePerspective() applied to a
\* stream of samples, each sample standing for its arrival number.
PushSample ==
  /\ sampleArrivals < MaxArrivals
  /\ sampleArrivals' = sampleArrivals + 1
  /\ sampleBuffer' = PushCapped(sampleBuffer, sampleArrivals + 1, HISTORY_CAPACITY)
  /\ UNCHANGED <<viewBuffer, viewArrivals, besideBuffers>>

PushView ==
  /\ viewArrivals < MaxArrivals
  /\ viewArrivals' = viewArrivals + 1
  /\ viewBuffer' = PushCapped(viewBuffer, viewArrivals + 1, PERSPECTIVE_CAPACITY)
  /\ UNCHANGED <<sampleBuffer, sampleArrivals, besideBuffers>>

NextBuffers == PushSample \/ PushView

SpecBuffers == Init /\ [][NextBuffers]_vars

\* ------------------------------------------------- sagging push-ups (C20)
\* A subject doing push-ups in side view whose body line sags on every
\* frame once the engine is calibrated: the alignment score is 45 (a
\* moderate deviation) or 0 (a major one), so checkForm() detects the
\* alignment issue on every frame it sees; the frames are 200 or 450 ms
\* apart, so no frame is debounced.
SaggingAlignments(ph) == IF ph = "calibrating" THEN {100} ELSE {0, 45}
SaggingDelays == {200, 450}

SaggingFrames(ph) ==
  { FrameOf("side", a, YOf(a), 100, al, FALSE, 0) :
      a \in ScenarioAngles(ph), al \in SaggingAlignments(ph) }

NextSagging ==
  \E f \in SaggingFrames(phase), dt \in SaggingDelays : DetectRep(f, dt)

SpecSagging == Init /\ [][NextSagging]_vars

\* ------------------------------------------------- changing views (C23)
\* A subject holding the push-up start position while the detected
\* perspective varies freely between front and side from frame to frame.
ViewFrames ==
  { FrameOf(d, 172, YOf(172), 100, 100, FALSE, 0) : d \in {"front", "side"} }

NextViews == \E f \in ViewFrames, dt \in TurnDelays : DetectRep(f, dt)

SpecViews == Init /\ [][NextViews]_vars

\* ---------------------------------------------------- form scorer (C26)
\* calculateFormScore() applied to issue lists: the exercise, perspective,
\* range of motion and frame are drawn once and held; an issue is then
\* injected, or the severity of one raised, and the score taken again.
Severities == <<"minor", "moderate", "major">>
Rank(severity) == CHOOSE r \in DOMAIN Severities : Severities[r] = severity

ScorerInputs ==
  [exercise : {"pushups", "squats", "pullups"},
   perspective : {"side", "front"},
   rom : {0, 36 * 30, 3600},
   frame : { FrameOf("side", 172, YOf(172), 100, al, FALSE, ks) :
               al \in {0, 45, 100}, ks \in {0, 30} }]

ScoreOf(input, issues) ==
  CalculateFormScore(input.exercise, input.perspective, input.rom, input.frame, issues)

InitScorer ==
  /\ InitEngine /\ KeypointsIdle
  /\ scorerInput \in ScorerInputs
  /\ injectedIssues = << >>
  /\ injectedScore = ScoreOf(scorerInput, << >>)

InjectIssue ==
  /\ Len(injectedIssues) < MaxIssues
  /\ \E r \in DOMAIN Severities :
       injectedIssues' = Append(injectedIssues, [type |-> "injected", severity |-> Severities[r]])
  /\ injectedScore' = ScoreOf(scorerInput, injectedIssues')
  /\ UNCHANGED <<scorerInput, besideScorer>>

RaiseSeverity ==
  /\ \E i \in DOMAIN injectedIssues :
       /\ Rank(injectedIssues[i].severity) < Len(Severities)
       /\ injectedIssues' =
            [injectedIssues EXCEPT ![i].severity = Severities[Rank(@) + 1]]
  /\ injectedScore' = ScoreOf(scorerInput, injectedIssues')
  /\ UNCHANGED <<scorerInput, besideScorer>>

NextScorer == InjectIssue \/ RaiseSeverity

SpecScorer == InitScorer /\ [][NextScorer]_vars

\* ---------------------------------------------------- getKeypoint (C27)
\* A pose is an array of keypoints; the array may be too short to hold the
\* keypoint asked for (present FALSE), and a keypoint's score is optional
\* (NULL when undefined).  Scores are in hundredths.
KeypointNames == {"leftShoulder", "rightShoulder", "leftHip"}
Scores == {NULL, 0, 29, 30, 90}
Keypoints ==
  {NoKeypoint} \cup { [present |-> TRUE, score |-> sc] : sc \in Scores }

\* JavaScript truthiness of an optional number: undefined and 0 are falsy
Truthy(score) == score # NULL /\ score # 0

\* if (!keypoint || (keypoint.score && keypoint.score < 0.3)) return null;
\* return keypoint
GetKeypoint(keypoints, name) ==
  LET keypoint == keypoints[name]
  IN  IF ~keypoint.present \/ (Truthy(keypoint.score) /\ keypoint.score < 30)
      THEN NoKeypoint
      ELSE keypoint

InitKeypoints ==
  /\ InitEngine /\ ScorerIdle
  /\ poseKeypoints \in [KeypointNames -> Keypoints]
  /\ requestedName = "none"
  /\ returnedKeypoint = NoKeypoint

GetKeypointCall ==
  /\ \E name \in KeypointNames :
       /\ requestedName' = name
       /\ returnedKeypoint' = GetKeypoint(poseKeypoints, name)
  /\ UNCHANGED <<poseKeypoints, besideKeypoints>>

SpecKeypoints == InitKeypoints /\ [][GetKeypointCall]_vars

\* ------------------------------------------------------------------ claims
Active == {"down", "up"}

\* a call of detectRep (reset and setExercise put frameCount back to 0)
FrameProcessed == frameCount' = frameCount + 1

\* the call received an angle, and the angle it received
AngleSampled == FrameProcessed /\ angleHistoryLength' = angleHistoryLength + 1
SampledAngle == angleHistory'[Len(angleHistory')]

\* the frame takes the Active -> Ready closure
Closure == phase \in Active /\ phase' = "ready"

\* C2: detectRep returns at most one record per frame, and it returns one
\* only on a frame on which the phase goes from Active (down/up) to Ready, so
\* that one closure yields at most one record.
C2_RecordOnlyOnClosure ==
  [][/\ Len(repData') <= 1
     /\ emitted' <= emitted + 1
     /\ (FrameProcessed /\ repData' # << >> => Closure)]_vars

C2_Witness ==
  /\ repData # << >>
  /\ phase = "ready"
  /\ timeSinceLastChange = 0
  /\ emitted = 1

\* C3: since the last reset()/setExercise() the cumulative counter equals the
\* number of records returned (so it changes exactly on the frames that
\* return one), and the record returned as the k-th carries repNumber = k.
C3_CounterCountsRecords ==
  /\ repCount = emitted
  /\ repData # << >> => repData[1].repNumber = emitted

C3_Witness ==
  /\ emitted = 2
  /\ repData # << >>
  /\ repData[1].repNumber = 2

\* C4: a closure detected less than MIN_REP_DURATION_MS after the cycle's
\* Ready -> Active transition still puts the phase back to Ready, returns no
\* record and leaves the counter alone.  First conjunct: a frame that is past
\* the debounce interval, in side view, with the angle past the return
\* threshold, closes the cycle whatever its duration.  Second conjunct: a
\* closure less than MIN_REP_DURATION_MS after the previous phase change (the
\* Ready -> Active transition) returns nothing.
C4_TooFastDiscarded ==
  [][/\ (/\ phase \in Active
         /\ AngleSampled
         /\ currentPerspective' = "side"
         /\ timeSinceLastChange + elapsed' >= DEBOUNCE_MS
         /\ PastReturn(currentExercise, SampledAngle)
         => phase' = "ready")
     /\ (Closure /\ changeGap' < MIN_REP_DURATION_MS
         => repData' = << >> /\ repCount' = repCount)]_vars

C4_Witness ==
  /\ phase = "ready"
  /\ timeSinceLastChange = 0
  /\ changeGap = 200
  /\ repData = << >>
  /\ repCount = 0

\* C6: two consecutive phase transitions (calibration completion,
\* Ready -> Active, Active -> Ready) are at least DEBOUNCE_MS apart, and a
\* frame that arrives less than DEBOUNCE_MS after the previous phase change
\* takes no transition between Ready and Active.
C6_TransitionsDebounced ==
  [][/\ changeGap' >= DEBOUNCE_MS
     /\ (FrameProcessed /\ phase # "calibrating"
           /\ timeSinceLastChange + elapsed' < DEBOUNCE_MS
         => phase' = phase)]_vars

C6_Witness ==
  /\ phase \in Active
  /\ timeSinceLastChange = 0
  /\ changeGap = 200

\* C1: for every exercise type, once calibration has completed, an angle
\* signal that crosses the onset threshold (the engine going Ready -> Active
\* on that frame) and, MIN_REP_DURATION_MS or more later, the return
\* threshold, with no other crossing, has made detectRep return exactly one
\* record and has increased the counter by exactly one.
C1_OneCycleOneRecord ==
  crossStatus = "cycle" => emitted = 1 /\ repCount = 1

\* The thresholds of an exercise leave a dead band between the contracted and
\* the rest position.  They do for push-ups, pull-ups, squats, deadlifts and
\* dips; for sit-ups (140 / 80) and muscle-ups (160 / 70) every angle between
\* the two thresholds is past both.
Separated(exercise) == OnsetThreshold(exercise) < ReturnThreshold(exercise)

\* C1 restricted to the exercises whose thresholds are separated
OneCycleOneRecordWhenSeparated ==
  crossStatus = "cycle" /\ Separated(currentExercise) => emitted = 1 /\ repCount = 1

\* C5 as stated: a cycle whose return crossing comes 120 ms after the frame
\* that took Ready -> Active leaves the phase back at Ready, with no record
\* and no increment.
C5_CycleIn120msBackAtReady ==
  [][/\ phase \in Active
     /\ timeSinceLastChange = 0
     /\ AngleSampled
     /\ elapsed' = 120
     /\ ~PastReturn(currentExercise, angleHistory[Len(angleHistory)])
     /\ PastReturn(currentExercise, SampledAngle)
     => phase' = "ready" /\ repData' = << >> /\ repCount' = repCount]_vars

\* C5, amended: a frame that arrives 120 ms after the frame that took
\* Ready -> Active is ignored by the debounce gate, return crossing or not:
\* the phase stays Active, no record is returned and the counter is not
\* incremented; the closure is taken only by a frame DEBOUNCE_MS or more
\* after the transition.
C5_CycleIn120msStaysActive ==
  [][/\ (/\ phase \in Active
         /\ timeSinceLastChange = 0
         /\ FrameProcessed
         /\ elapsed' = 120
         => phase' = phase /\ repData' = << >> /\ repCount' = repCount)
     /\ (Closure => timeSinceLastChange + elapsed' >= DEBOUNCE_MS)]_vars

C5_Witness ==
  /\ phase \in Active
  /\ timeSinceLastChange = 120
  /\ elapsed = 120
  /\ Len(angleHistory) >= 2
  /\ PastReturn(currentExercise, angleHistory[Len(angleHistory)])
  /\ ~PastReturn(currentExercise, angleHistory[Len(angleHistory) - 1])
  /\ repData = << >>

\* C7: push-ups in side view: as long as no angle sample has gone below the
\* down threshold, the phase is not Active and no record has been returned.
C7_NoOnsetNoRecord ==
  /\ currentExercise = "pushups"
  /\ currentPerspective = "side"
  /\ lowestAngle >= EXERCISE_THRESHOLDS["pushups"].downAngle
  => phase \notin Active /\ emitted = 0 /\ repCount = 0 /\ repData = << >>

C7_Witness ==
  /\ currentExercise = "pushups"
  /\ currentPerspective = "side"
  /\ phase = "ready"
  /\ timeSinceLastChange >= DEBOUNCE_MS
  /\ lowestAngle = 140
  /\ angleHistory[Len(angleHistory)] = 140

\* C8: of two cycles fed in succession the second returns a record only if
\* it passes both gates itself: its Ready -> Active transition comes
\* DEBOUNCE_MS or more after the first closure and its closure
\* MIN_REP_DURATION_MS or more after that transition.  Hence two records are
\* never closer than DEBOUNCE_MS + MIN_REP_DURATION_MS, and every record
\* comes from a closure MIN_REP_DURATION_MS or more after the previous phase
\* change.
C8_SecondRecordPassesGates ==
  /\ emitted >= 2 => recordGap >= DEBOUNCE_MS + MIN_REP_DURATION_MS
  /\ repData # << >> => /\ changeGap >= MIN_REP_DURATION_MS
                        /\ repData[1].duration >= MIN_REP_DURATION_MS

C8_Witness ==
  /\ emitted = 2
  /\ sinceLastRecord = 0
  /\ recordGap >= DEBOUNCE_MS + MIN_REP_DURATION_MS
  /\ changeGap = 450

\* C10: the window of the most recent samples is not steady: it holds fewer
\* than MIN_STABLE_FRAMES samples, or one of them is tolerance or more away
\* from the window's mean
Unsteady(window, tolerance) ==
  \/ Len(window) < MIN_STABLE_FRAMES
  \/ \E i \in DOMAIN window :
       Abs(Len(window) * window[i] - Sum(window)) >= Len(window) * tolerance

\* C10: a frame on which both the angle window and the position window
\* jitter beyond the tolerance leaves the phase at Calibrating; so the phase
\* remains Calibrating for as long as every frame does.
C10_JitterKeepsCalibrating ==
  [][/\ phase = "calibrating"
     /\ FrameProcessed
     /\ Unsteady(angleHistory', ANGLE_STABILITY)
     /\ Unsteady(yHistory', Y_STABILITY)
     => phase' = "calibrating"]_vars

C10_Witness ==
  /\ phase = "calibrating"
  /\ angleHistoryLength > MIN_CALIBRATION_FRAMES
  /\ yHistoryLength > MIN_CALIBRATION_FRAMES
  /\ Unsteady(angleHistory, ANGLE_STABILITY)
  /\ Unsteady(yHistory, Y_STABILITY)

\* the frames 170 -> 95 -> 172 fed 450 ms apart to the engine calibrated at
\* 170 degrees: the last calibration frame, then the two frames after it
PushUpCycleFed ==
  /\ currentExercise = "pushups"
  /\ currentPerspective = "side"
  /\ frameCount = MIN_CALIBRATION_FRAMES + 2
  /\ baselineAngle = 60 * 170
  /\ angleHistory[Len(angleHistory) - 2] = 170
  /\ angleHistory[Len(angleHistory) - 1] = 95
  /\ angleHistory[Len(angleHistory)] = 172

\* C9: push-ups, side view, calibrated, angles 170 -> 95 -> 172 spread evenly
\* over 900 ms with no form issue: exactly one record is returned, it is
\* valid, its range of motion is 100 % and its form score is 90 or more.
C9_PushUpScenario ==
  PushUpCycleFed =>
    /\ emitted = 1
    /\ repCount = 1
    /\ Len(repData) = 1
    /\ repData[1].isValid
    /\ repData[1].rangeOfMotion = 36 * 100
    /\ repData[1].formScore >= 360 * 90
    /\ repData[1].issues = << >>

C9_Witness ==
  /\ PushUpCycleFed
  /\ repData # << >>
  /\ repData[1].duration = 450

\* the window of the most recent samples is steady: MIN_STABLE_FRAMES samples,
\* each less than tolerance away from their mean
Steady(window, tolerance) == ~Unsteady(window, tolerance)

\* the frame completes the calibration
CalibrationCompletes == phase = "calibrating" /\ phase' # "calibrating"

\* C11: the phase leaves Calibrating only for Ready, only on a frame with
\* MIN_CALIBRATION_FRAMES or more frames processed since the last reset, and
\* only when the MIN_STABLE_FRAMES most recent samples of the signal used
\* (angle in side view, position in front view, either in unknown view) are
\* within the tolerance of their mean; a frame received while Calibrating
\* starts no repetition and returns no record.
C11_CalibrationGate ==
  [][/\ (CalibrationCompletes =>
           /\ phase' = "ready"
           /\ FrameProcessed
           /\ frameCount' >= MIN_CALIBRATION_FRAMES
           /\ currentPerspective' = "side" => Steady(angleHistory', ANGLE_STABILITY)
           /\ currentPerspective' = "front" => Steady(yHistory', Y_STABILITY)
           /\ currentPerspective' = "unknown" =>
                \/ Steady(angleHistory', ANGLE_STABILITY)
                \/ Steady(yHistory', Y_STABILITY))
     /\ (phase = "calibrating" =>
           /\ phase' \notin Active
           /\ repData' = << >>
           /\ repCount' = repCount)]_vars

C11_Witness ==
  /\ phase = "ready"
  /\ timeSinceLastChange = 0
  /\ changeGap = ClockCap
  /\ frameCount = MIN_CALIBRATION_FRAMES
  /\ Steady(angleHistory, ANGLE_STABILITY)

\* C12: on the frame calibration completes, the mean of the stable window is
\* recorded as the baseline of the signal whose stability completed it (the
\* angle in side view, the position in front view, whichever was stable in
\* unknown view), and the baselines stay as recorded while the phase is not
\* Calibrating: the baseline of the signal in use is never left null.
C12_BaselineRecorded ==
  [][/\ (CalibrationCompletes =>
           /\ currentPerspective' = "side" =>
                /\ baselineAngle' # NULL
                /\ MIN_STABLE_FRAMES * baselineAngle' = 60 * Sum(angleHistory')
           /\ currentPerspective' = "front" =>
                /\ baselineY' # NULL
                /\ MIN_STABLE_FRAMES * baselineY' = 60 * Sum(yHistory')
           /\ currentPerspective' = "unknown" =>
                /\ (/\ angleHistoryLength' >= MIN_CALIBRATION_FRAMES
                    /\ Steady(angleHistory', ANGLE_STABILITY)
                    => baselineAngle' # NULL)
                /\ (/\ yHistoryLength' >= MIN_CALIBRATION_FRAMES
                    /\ Steady(yHistory', Y_STABILITY)
                    => baselineY' # NULL))
     /\ (FrameProcessed /\ phase # "calibrating" =>
           baselineAngle' = baselineAngle /\ baselineY' = baselineY)]_vars

\* a call of reset() or setExercise(): the frame count does not advance
ResetCalled == ~FrameProcessed

\* C13: reset(), called in any reachable state, leaves the engine in its
\* initial state in one step: phase Calibrating, counter 0, both baselines
\* null, the extrema at their initial values, the issue list, the histories
\* and the perspective history empty, the perspective unknown, no frame
\* counted; setExercise(t) does the same and makes t the exercise, reset()
\* keeps the exercise.
C13_ResetGivesInitialState ==
  [][ResetCalled =>
       /\ phase' = "calibrating"
       /\ repCount' = 0
       /\ baselineAngle' = NULL /\ baselineY' = NULL
       /\ minAngle' = 180 /\ maxAngle' = 0
       /\ minY' = Infinity /\ maxY' = 0
       /\ formIssues' = << >>
       /\ angleHistory' = << >> /\ angleHistoryLength' = 0
       /\ yHistory' = << >> /\ yHistoryLength' = 0
       /\ currentPerspective' = "unknown"
       /\ perspectiveHistory' = << >>
       /\ frameCount' = 0
       /\ repData' = << >>
       /\ timeSinceLastChange' = ClockCap /\ repDuration' = ClockCap
       /\ currentExercise' \in ExerciseTypes]_vars

\* a reset has just discarded a counted repetition of another exercise
C13_Witness ==
  /\ discarded >= 1
  /\ currentExercise = "squats"
  /\ phase = "calibrating" /\ repCount = 0 /\ frameCount = 0
  /\ baselineAngle = NULL /\ baselineY = NULL

\* C14: setExercise rejects a type outside the closed set of seven, so the
\* engine is never configured with a type it has no thresholds for (and
\* never processes frames for one, silently counting nothing).
C14_OnlyKnownTypes == currentExercise \in ExerciseTypes

\* the call received a yPosition
YSampled == FrameProcessed /\ yHistoryLength' = yHistoryLength + 1

\* the frame lacks the signal the engine tracks in the perspective it has
\* settled on: the joint angle in side view, the normalised position
\* (yPosition and bodyHeight) in front view, both in unknown view
PositionAvailable == YSampled /\ lastBodyHeight' # NULL
TrackedSignalAbsent ==
  /\ FrameProcessed
  /\ currentPerspective' = "side" => ~AngleSampled
  /\ currentPerspective' = "front" => ~PositionAvailable
  /\ currentPerspective' = "unknown" => ~AngleSampled /\ ~PositionAvailable

\* C15: on a frame whose keypoints do not give the tracked signal, detectRep
\* returns no record and evaluates no phase transition: the phase after the
\* call is the phase before it.
C15_NoSignalNoTransition ==
  [][TrackedSignalAbsent => phase' = phase /\ repData' = << >>]_vars

\* the yPosition the call received
SampledY == yHistory'[Len(yHistory')]

\* the frame reached the routing of checkRepCompletion: the engine was
\* calibrated and the debounce did not hold the phase
Routed ==
  /\ FrameProcessed
  /\ phase # "calibrating"
  /\ phase' # phase \/ ~Debounced(timeSinceLastChange')

ByAngle == CheckRepByAngle(currentExercise, phase, baselineAngle, SampledAngle).phase
ByPosition ==
  CheckRepByPosition(currentExercise, phase, baselineY, yHistoryLength',
                     Min2(minY, SampledY), Max2(maxY, SampledY),
                     SampledY, lastBodyHeight').phase

\* C16: a frame's transition is evaluated with the angle thresholds in side
\* view when the angle is available, with the position thresholds in front
\* view when the position is available, and in unknown view with the angle
\* thresholds if the angle is available, otherwise with the position
\* thresholds if the position is available; otherwise the phase is kept.
C16_ThresholdRouting ==
  [][Routed =>
       phase' = IF currentPerspective' = "side" /\ AngleSampled THEN ByAngle
                ELSE IF currentPerspective' = "front" /\ PositionAvailable THEN ByPosition
                ELSE IF currentPerspective' = "unknown" /\ AngleSampled THEN ByAngle
                ELSE IF currentPerspective' = "unknown" /\ PositionAvailable THEN ByPosition
                ELSE phase]_vars

\* C17: the Active phase is 'down' for push-ups, squats, sit-ups, deadlifts
\* and dips and 'up' for pull-ups and muscle-ups, whichever signal is
\* tracked: the phase is never 'up' for the former nor 'down' for the latter.
C17_ActivePhaseByExercise ==
  /\ phase = "down" =>
       currentExercise \in {"pushups", "squats", "situps", "deadlift", "dips"}
  /\ phase = "up" => currentExercise \in {"pullups", "muscleup"}

\* a muscle-up is under way, tracked by position in front view
C17_Witness ==
  /\ phase = "up"
  /\ currentExercise = "muscleup"
  /\ currentPerspective = "front"

\* the buffer holds the most recent samples of the stream, at most capacity
\* of them, in arrival order
MostRecentInOrder(buffer, arrivals, capacity) ==
  /\ Len(buffer) = Min2(arrivals, capacity)
  /\ \A i \in DOMAIN buffer : buffer[i] = arrivals - Len(buffer) + i

\* C18: after every push the angle and position histories hold at most 60
\* samples and the perspective history at most 15; a full buffer evicts its
\* oldest sample, so each holds the most recent samples in arrival order.
C18_BoundedFifo ==
  /\ Len(sampleBuffer) <= 60
  /\ Len(viewBuffer) <= 15
  /\ MostRecentInOrder(sampleBuffer, sampleArrivals, HISTORY_CAPACITY)
  /\ MostRecentInOrder(viewBuffer, viewArrivals, PERSPECTIVE_CAPACITY)

\* both buffers are full and have evicted their two oldest samples
C18_Witness ==
  /\ sampleArrivals = 62 /\ Len(sampleBuffer) = 60 /\ sampleBuffer[1] = 3
  /\ viewArrivals = 17 /\ Len(viewBuffer) = 15 /\ viewBuffer[1] = 3

\* the extrema of an empty repetition window
ExtremaInitial(mnA, mxA, mnY, mxY) ==
  mnA = 180 /\ mxA = 0 /\ mnY = Infinity /\ mxY = 0

\* C19: while the phase is not Calibrating, every angle sample received in
\* the current repetition window lies between minAngle and maxAngle, and
\* every position sample between minY and maxY.  The window is empty when
\* calibration completes and after a record is returned (the extrema are at
\* their initial values); each later frame puts its samples inside the
\* extrema and never narrows them, so the earlier samples stay inside.
C19_ExtremaBracketWindow ==
  [][/\ (phase' = "calibrating" \/ phase = "calibrating" \/ repData' # << >>
           => ExtremaInitial(minAngle', maxAngle', minY', maxY'))
     /\ (FrameProcessed /\ phase # "calibrating" /\ repData' = << >> =>
           /\ AngleSampled => minAngle' <= SampledAngle /\ SampledAngle <= maxAngle'
           /\ YSampled => minY' <= SampledY /\ SampledY <= maxY'
           /\ minAngle' <= minAngle /\ maxAngle' >= maxAngle
           /\ minY' <= minY /\ maxY' >= maxY)]_vars

\* a push-up window holding samples from 95 to 172 degrees
C19_Witness ==
  /\ phase = "down"
  /\ minAngle = 95 /\ maxAngle = 172
  /\ minY = YOf(172) /\ maxY = YOf(95)

\* C20: the issue list of the repetition in progress holds at most one Form
\* Issue per type, and a frame that detects a type already in the list
\* leaves the list as it is, the first occurrence kept.  (checkForm can
\* raise one type per exercise, so a detection on a non-empty list is a
\* re-detection.)
C20_OneIssuePerType ==
  [][/\ \A i, j \in DOMAIN formIssues' :
          formIssues'[i].type = formIssues'[j].type => i = j
     /\ (FrameProcessed /\ repData' = << >> /\ formIssues # << >>
           => formIssues' = formIssues)]_vars

\* three frames in a row have detected the alignment issue since calibration
\* completed, none closed a repetition, and the list holds the issue once
C20_Witness ==
  /\ currentExercise = "pushups" /\ currentPerspective = "side"
  /\ frameCount = MIN_CALIBRATION_FRAMES + 3
  /\ emitted = 0
  /\ formIssues = << [type |-> "alignment", severity |-> "moderate"] >>

\* the frame appends a Form Issue to the list of the repetition in progress
IssueAppended == FrameProcessed /\ Len(formIssues') > Len(formIssues)

\* C21: a Form Issue is appended only on a frame on which the phase is
\* Active (before or after the call) and the perspective is side; no issue
\* is appended on a frame that starts and ends in Calibrating or Ready.
C21_IssuesOnlyWhileActive ==
  [][IssueAppended =>
       /\ phase \in Active \/ phase' \in Active
       /\ currentPerspective' = "side"]_vars

\* C22: on every frame that returns a record the per-rep extrema and the
\* issue list are put back to their initial values, the calibration
\* baselines are kept and the counter goes on from its value (plus one);
\* the record reports the issues of the window it closes and the next
\* window starts empty.
C22_RecordResetsWindow ==
  [][repData' # << >> =>
       /\ ExtremaInitial(minAngle', maxAngle', minY', maxY')
       /\ formIssues' = << >>
       /\ repData'[1].issues = [i \in DOMAIN formIssues |-> formIssues[i].type]
       /\ baselineAngle' = baselineAngle /\ baselineY' = baselineY
       /\ repCount' = repCount + 1
       /\ phase' = "ready"]_vars

\* a second record has just been returned; it reports an issue and the list
\* is empty again, the baseline still set
C22_Witness ==
  /\ repData # << >>
  /\ repCount = 2
  /\ repData[1].issues # << >>
  /\ formIssues = << >>
  /\ baselineAngle # NULL
  /\ minAngle = 180 /\ maxAngle = 0

\* every entry of the perspective history is the visible perspective
Unanimous ==
  /\ perspectiveHistory # << >>
  /\ \A i \in DOMAIN perspectiveHistory : perspectiveHistory[i] = currentPerspective

\* C23: a frame changes the visible perspective to a category only if, in
\* the perspective history after the frame, that category's count is
\* strictly greater than the other's and at least 5; it never changes it to
\* unknown; a single frame that differs from a unanimous history leaves the
\* visible perspective as it was.
C23_PerspectiveByMajority ==
  [][FrameProcessed =>
       /\ (currentPerspective' # currentPerspective =>
             /\ currentPerspective' \in {"front", "side"}
             /\ \A other \in {"front", "side"} \ {currentPerspective'} :
                  /\ Count(perspectiveHistory', currentPerspective')
                       > Count(perspectiveHistory', other)
                  /\ Count(perspectiveHistory', currentPerspective') >= 5)
       /\ (Unanimous => currentPerspective' = currentPerspective)]_vars

\* five frontal frames made the perspective front, six lateral ones then
\* made it side
C23_Witness ==
  /\ currentPerspective = "side"
  /\ perspectiveHistory =
       <<"front", "front", "front", "front", "front",
         "side", "side", "side", "side", "side", "side">>

\* the record returned by the frame, and the major issues of the window it
\* closes
Record == repData'[1]
MajorIssues == {i \in DOMAIN formIssues : formIssues[i].severity = "major"}

\* C24: a returned record is valid exactly when its range of motion is at
\* least 0.6 x minROM of the exercise, its form score at least 50, its
\* duration at least 400 ms and the issue list holds no major issue
\* (rangeOfMotion is in 36ths of a percent, formScore in 360ths of a point).
C24_ValidityRule ==
  [][repData' # << >> =>
       /\ Record.isValid <=>
            /\ 10 * Record.rangeOfMotion >= 36 * 6 * EXERCISE_THRESHOLDS[currentExercise].minROM
            /\ Record.formScore >= 360 * 50
            /\ Record.duration >= 400
            /\ MajorIssues = {}
       /\ MajorIssues # {} => ~Record.isValid]_vars

\* a record with enough range, score and duration that a major issue alone
\* makes invalid
C24_Witness ==
  /\ repData # << >>
  /\ ~repData[1].isValid
  /\ 10 * repData[1].rangeOfMotion >= 36 * 6 * EXERCISE_THRESHOLDS[currentExercise].minROM
  /\ repData[1].formScore >= 360 * 50
  /\ repData[1].duration >= 400

\* the frame was routed to the angle thresholds: side view, or unknown view
\* (where the angle is the fallback), with an angle available
AngleTracked ==
  AngleSampled /\ currentPerspective' \in {"side", "unknown"}

\* clamp(100 x |max - min| / |upAngle - downAngle|, 0, 100) in 36ths, over
\* the angle samples of the repetition, the closing one included
AngleROM ==
  LET thresholds == EXERCISE_THRESHOLDS[currentExercise]
      high == IF SampledAngle > maxAngle THEN SampledAngle ELSE maxAngle
      low == IF SampledAngle < minAngle THEN SampledAngle ELSE minAngle
      ratio == (3600 * (high - low)) \div Abs(thresholds.upAngle - thresholds.downAngle)
  IN  IF ratio > 3600 THEN 3600 ELSE IF ratio < 0 THEN 0 ELSE ratio

\* C25: the rangeOfMotion of a returned record is the clamped ratio of the
\* tracked signal's range over the repetition to |upThreshold -
\* downThreshold| of the active tracking mode, whatever the perspective at
\* closure.  Stated for the records closed by angle tracking, in side or in
\* unknown view.
C25_RangeOfMotionFormula ==
  [][repData' # << >> /\ AngleTracked => Record.rangeOfMotion = AngleROM]_vars

\* C26: with the range of motion and the alignment inputs held, the form
\* score does not increase when an issue is added to the list or the
\* severity of an issue is raised, and it always lies within 0 .. 100
\* (0 .. 36000 in 360ths).
C26_ScoreNonIncreasing ==
  [][/\ injectedScore' <= injectedScore
     /\ 0 <= injectedScore' /\ injectedScore' <= 100 * 360]_vars

\* four issues raised to major have brought the score of a full-range,
\* well-aligned repetition from 100 down to 60
C26_Witness ==
  /\ scorerInput.rom = 3600 /\ scorerInput.perspective = "front"
  /\ Len(injectedIssues) = 4
  /\ \A i \in DOMAIN injectedIssues : injectedIssues[i].severity = "major"
  /\ injectedScore = 60 * 360

\* C27: getKeypoint returns null for every keypoint whose confidence is
\* below 0.3, confidence 0 included, and returns the keypoint only when its
\* confidence is at least 0.3 (scores are in hundredths).
C27_ConfidenceFloor ==
  requestedName # "none" =>
    LET keypoint == poseKeypoints[requestedName]
    IN  /\ (keypoint.present /\ keypoint.score \in 0..29 => ~returnedKeypoint.present)
        /\ (returnedKeypoint.present =>
              returnedKeypoint = keypoint /\ keypoint.score # NULL /\ keypoint.score >= 30)

\* ------------------------------------------------ recoverability (C28)
\* A session of any valid exercise type, seen from the side or from the
\* front, with frames lost, resets and changes of exercise, is left at an
\* arbitrary point; from there a continuation feeds detectRep() and never
\* calls reset().  The continuation shows the subject from the side, 450 ms
\* a frame: fully extended (172 degrees) until the engine is Ready in side
\* perspective, then contracted (10 degrees, below every onset threshold
\* and at least half of every minAngleChange away from a baseline of 60 or
\* 172), then extended again (above every return threshold).
RecoverAngles(ph) == IF ph = "calibrating" THEN {172} ELSE {60, 172}
RecoverYs(ph) == IF ph = "calibrating" THEN {100} ELSE {200}
RecoverDelays(ph) == IF ph = "calibrating" THEN {200} ELSE {120, 450}
RecoverFrames(ph) ==
  { FrameOf("side", a, YOf(a), 100, 100, FALSE, 0) : a \in RecoverAngles(ph) }
    \cup { FrameOf("front", 172, y, 100, 100, FALSE, 0) : y \in RecoverYs(ph) }
    \cup (IF ph = "calibrating" THEN {} ELSE {LostFrame})

ContinuationAngle ==
  IF phase = "ready" /\ currentPerspective = "side" THEN 10 ELSE 172
ContinuationFrame ==
  FrameOf("side", ContinuationAngle, YOf(ContinuationAngle), 100, 100, FALSE, 0)

\* one more frame of the continuation, until detectRep() returns a record
Continue ==
  /\ continuation # "counted"
  /\ fed < MaxFed
  /\ currentExercise \in ExerciseTypes
  /\ ProcessFrame(ContinuationFrame, 450)
  /\ fed' = fed + 1
  /\ continuation' = IF repData' # << >> THEN "counted" ELSE "feeding"

NextRecover ==
  \/ /\ continuation = "none"
     /\ \E f \in RecoverFrames(phase), dt \in RecoverDelays(phase) :
          SameCamera(f) /\ DetectRep(f, dt)
  \/ continuation = "none" /\ Reset
  \/ continuation = "none" /\ \E exercise \in ExerciseTypes : SetExercise(exercise)
  \/ Continue

\* the caller keeps delivering the frames of the continuation
SpecRecover == Init /\ [][NextRecover]_vars /\ WF_vars(Continue)

\* C28: from every reachable engine state with a valid exercise type, a
\* continuation of frames without reset() makes the engine return a
\* repetition record: once begun, the continuation leads to a record.
C28_RepetitionAlwaysPossible == (continuation = "feeding") ~> (continuation = "counted")

\* a continuation that had to calibrate the engine before its repetition
C28_Witness == continuation = "counted" /\ fed > MIN_CALIBRATION_FRAMES

\* ------------------------------------------------- speech service (C29)
\* The service's own queue in front of the browser's synthesizer.  The
\* synthesizer keeps the utterances handed to it in order, speaks the
\* first, and reports each with a start event and then an end or an error
\* event; cancel() empties it, and each removed utterance is reported later
\* with an end or an error event.  The events are delivered as tasks of
\* their own, after the call that caused them has returned.
Texts == {"", "ding", "five"}
Priorities == {"high", "normal", "low"}

\* processQueue(): a text is taken unless isSpeaking or the queue is empty
Takes(speaking, queue) == ~speaking /\ queue # << >>

\* processQueue(): the utterance is submitted unless the text taken is empty
Submits(speaking, queue, synth) == Takes(speaking, queue) /\ Head(queue) # ""

QueueAfter(speaking, queue) == IF Takes(speaking, queue) THEN Tail(queue) ELSE queue

SynthesisAfter(speaking, queue, synth) ==
  IF Submits(speaking, queue, synth)
    THEN Append(synth, [text |-> Head(queue), started |-> FALSE])
    ELSE synth

\* the state the service and the synthesizer are in after processQueue()
ProcessQueue(speaking, queue, synth) ==
  /\ messageQueue' = QueueAfter(speaking, queue)
  /\ synthesisQueue' = SynthesisAfter(speaking, queue, synth)

\* initialize()
Initialize ==
  /\ ~synthesis
  /\ synthesis' = TRUE
  /\ UNCHANGED <<speechEnabled, messageQueue, isSpeaking, synthesisQueue,
                 cancelledUtterances, pendingTimers, speakCalls, besideSpeech>>

\* updateSettings({enabled})
UpdateSettings(enabled) ==
  /\ speechEnabled # enabled
  /\ speechEnabled' = enabled
  /\ UNCHANGED <<synthesis, messageQueue, isSpeaking, synthesisQueue,
                 cancelledUtterances, pendingTimers, speakCalls, besideSpeech>>

\* speak(text, priority) with every priority queueing behind the pending messages
EnqueuedBehind(queue, text, priority) == Append(queue, text)

\* speak(text, priority): the queue before processQueue()
Enqueued(queue, text, priority) ==
  IF priority = "high" THEN <<text>>
  ELSE IF priority = "low" THEN Append(queue, text)
  ELSE <<text>> \o queue

\* speak(text, priority): nothing while speech is disabled or there is no
\* synthesizer; 'high' cancels what the synthesizer holds
Speak(text, priority) ==
  /\ speakCalls < MaxSpeakCalls
  /\ speakCalls' = speakCalls + 1
  /\ IF ~speechEnabled \/ ~synthesis
       THEN UNCHANGED <<messageQueue, synthesisQueue, cancelledUtterances>>
       ELSE /\ cancelledUtterances' =
                 IF priority = "high" THEN cancelledUtterances + Len(synthesisQueue)
                                      ELSE cancelledUtterances
            /\ ProcessQueue(isSpeaking, Enqueued(messageQueue, text, priority),
                            IF priority = "high" THEN << >> ELSE synthesisQueue)
  /\ UNCHANGED <<synthesis, speechEnabled, isSpeaking, pendingTimers, besideSpeech>>

\* stop()
Stop ==
  /\ synthesis
  /\ cancelledUtterances' = cancelledUtterances + Len(synthesisQueue)
  /\ synthesisQueue' = << >>
  /\ messageQueue' = << >>
  /\ isSpeaking' = FALSE
  /\ UNCHANGED <<synthesis, speechEnabled, pendingTimers, speakCalls, besideSpeech>>

\* utterance.onstart: the synthesizer begins its first utterance
UtteranceStart ==
  /\ synthesisQueue # << >>
  /\ ~synthesisQueue[1].started
  /\ synthesisQueue' = <<[synthesisQueue[1] EXCEPT !.started = TRUE]>> \o Tail(synthesisQueue)
  /\ isSpeaking' = TRUE
  /\ UNCHANGED <<synthesis, speechEnabled, messageQueue, cancelledUtterances,
                 pendingTimers, speakCalls, besideSpeech>>

\* utterance.onend: the utterance being spoken ends
UtteranceEnd ==
  /\ synthesisQueue # << >>
  /\ synthesisQueue[1].started
  /\ synthesisQueue' = Tail(synthesisQueue)
  /\ isSpeaking' = FALSE
  /\ pendingTimers' = pendingTimers + 1
  /\ UNCHANGED <<synthesis, speechEnabled, messageQueue, cancelledUtterances,
                 speakCalls, besideSpeech>>

\* utterance.onerror: the synthesizer's first utterance fails
UtteranceError ==
  /\ synthesisQueue # << >>
  /\ isSpeaking' = FALSE
  /\ ProcessQueue(FALSE, messageQueue, Tail(synthesisQueue))
  /\ UNCHANGED <<synthesis, speechEnabled, cancelledUtterances, pendingTimers,
                 speakCalls, besideSpeech>>

\* the event of an utterance removed by cancel(): onerror, or onend
CancelledEvent ==
  /\ cancelledUtterances > 0
  /\ cancelledUtterances' = cancelledUtterances - 1
  /\ isSpeaking' = FALSE
  /\ \/ ProcessQueue(FALSE, messageQueue, synthesisQueue) /\ UNCHANGED pendingTimers
     \/ pendingTimers' = pendingTimers + 1 /\ UNCHANGED <<messageQueue, synthesisQueue>>
  /\ UNCHANGED <<synthesis, speechEnabled, speakCalls, besideSpeech>>

\* setTimeout(() => this.processQueue(), 100)
TimerFires ==
  /\ pendingTimers > 0
  /\ pendingTimers' = pendingTimers - 1
  /\ ProcessQueue(isSpeaking, messageQueue, synthesisQueue)
  /\ UNCHANGED <<synthesis, speechEnabled, isSpeaking, cancelledUtterances,
                 speakCalls, besideSpeech>>

NextSpeech ==
  \/ Initialize
  \/ \E enabled \in BOOLEAN : UpdateSettings(enabled)
  \/ \E text \in Texts, priority \in Priorities : Speak(text, priority)
  \/ Stop
  \/ UtteranceStart
  \/ UtteranceEnd
  \/ UtteranceError
  \/ CancelledEvent
  \/ TimerFires

SpecSpeech == Init /\ [][NextSpeech]_vars

\* C29: the service never submits an utterance while one it submitted
\* earlier has neither ended nor failed: the synthesizer holds at most one
\* utterance of the service (the utterances removed by cancel() not counted).
C29_OneUtteranceInFlight == Len(synthesisQueue) <= 1

\* ------------------------------------------------- workout phases (C30)
\* The store's actions, as functions of the store's state
\* [phase, hasSession, index, reps, sets, total], with the number of addRep
\* calls of the session carried along (added).
WorkoutPhases ==
  {"setup", "countdown", "exercising", "resting", "workoutComplete", "summary"}

Store ==
  [phase |-> workoutPhase, hasSession |-> hasSession,
   index |-> currentSetIndex, reps |-> currentReps,
   sets |-> sessionSets, total |-> totalReps, added |-> repsAdded]

\* startWorkout()
StartWorkout(store) ==
  [phase |-> "countdown", hasSession |-> TRUE, index |-> 0, reps |-> 0,
   sets |-> 0, total |-> 0, added |-> 0]

\* completeSet(): nothing without a session; the set is appended to the
\* session and its reps added to totalReps; after the last configured set
\* the phase is workoutComplete, otherwise resting with currentReps emptied
CompleteSet(store, sets) ==
  IF ~store.hasSession THEN store
  ELSE LET recorded == [store EXCEPT !.sets = @ + 1, !.total = @ + store.reps]
       IN  IF store.index + 1 >= sets
             THEN [recorded EXCEPT !.phase = "workoutComplete"]
             ELSE [recorded EXCEPT !.phase = "resting", !.reps = 0]

\* startNextSet()
StartNextSet(store) ==
  [store EXCEPT !.index = @ + 1, !.reps = 0, !.phase = "countdown"]

\* completeWorkout(): nothing without a session
CompleteWorkout(store) ==
  IF ~store.hasSession THEN store ELSE [store EXCEPT !.phase = "summary"]

\* resetWorkout()
ResetWorkout(store) ==
  [phase |-> "setup", hasSession |-> FALSE, index |-> 0, reps |-> 0,
   sets |-> 0, total |-> 0, added |-> store.added]

\* setPhase(phase)
SetPhase(store, p) == [store EXCEPT !.phase = p]

\* the store after a handler, and WorkoutDisplay's effect on [phase]: while
\* it stays mounted, entering countdown or resting resets and starts the
\* timer of that phase (start() returns at once if its timer was running
\* when the component last rendered, so that reset() leaves it stopped);
\* unmounting clears both timers
Becomes(store, view, countdown, rest) ==
  LET entered == store.phase # workoutPhase
      mounted == view = "workout"
  IN  /\ workoutPhase' = store.phase
      /\ hasSession' = store.hasSession
      /\ currentSetIndex' = store.index
      /\ currentReps' = store.reps
      /\ sessionSets' = store.sets
      /\ totalReps' = store.total
      /\ repsAdded' = store.added
      /\ appView' = view
      /\ countdownRunning' =
           IF ~mounted THEN FALSE
           ELSE IF entered /\ store.phase = "countdown" THEN ~countdown
           ELSE countdown
      /\ restRunning' =
           IF ~mounted THEN FALSE
           ELSE IF entered /\ store.phase = "resting" THEN ~rest
           ELSE rest

\* ExerciseSelector.onSetsChange: setConfig({sets})
SetConfig(sets) ==
  /\ appView = "home"
  /\ configSets # sets
  /\ configSets' = sets
  /\ UNCHANGED <<workoutPhase, hasSession, currentSetIndex, currentReps, appView,
                 sessionSets, totalReps, repsAdded,
                 isPaused, countdownRunning, restRunning, setTimers, besideWorkout>>

\* App.handleStartWorkout: WorkoutDisplay is mounted, not paused
HandleStartWorkout ==
  /\ appView = "home"
  /\ Becomes(StartWorkout(Store), "workout", FALSE, FALSE)
  /\ isPaused' = FALSE
  /\ UNCHANGED <<configSets, setTimers, besideWorkout>>

\* countdownTimer.onComplete: onPhaseChange('exercising')
CountdownComplete ==
  /\ countdownRunning
  /\ Becomes(SetPhase(Store, "exercising"), appView, FALSE, restRunning)
  /\ UNCHANGED <<configSets, isPaused, setTimers, besideWorkout>>

\* togglePause
TogglePause ==
  /\ appView = "workout" /\ workoutPhase = "exercising"
  /\ isPaused' = ~isPaused
  /\ UNCHANGED <<workoutPhase, hasSession, currentSetIndex, currentReps, configSets,
                 sessionSets, totalReps, repsAdded,
                 appView, countdownRunning, restRunning, setTimers, besideWorkout>>

\* WorkoutDisplay.handleRepComplete, called by pose detection while the
\* phase is exercising and the display is not paused: addRep, and at the
\* target a timer that calls onSetComplete 500 ms later
HandleRepComplete ==
  /\ appView = "workout" /\ workoutPhase = "exercising" /\ ~isPaused
  /\ repsAdded < MaxRepsAdded
  /\ currentReps + 1 >= TargetReps => setTimers < MaxSetTimers
  /\ currentReps' = currentReps + 1
  /\ repsAdded' = repsAdded + 1
  /\ setTimers' = IF currentReps + 1 >= TargetReps THEN setTimers + 1 ELSE setTimers
  /\ UNCHANGED <<workoutPhase, hasSession, currentSetIndex, configSets, appView,
                 sessionSets, totalReps,
                 isPaused, countdownRunning, restRunning, besideWorkout>>

\* the timer of handleRepComplete fires: App.handleSetComplete, whether or
\* not WorkoutDisplay is still mounted
SetTimerFires ==
  /\ setTimers > 0
  /\ setTimers' = setTimers - 1
  /\ Becomes(CompleteSet(Store, configSets), appView, countdownRunning, restRunning)
  /\ UNCHANGED <<configSets, isPaused, besideWorkout>>

\* the End Set button
EndSet ==
  /\ appView = "workout" /\ workoutPhase = "exercising"
  /\ Becomes(CompleteSet(Store, configSets), appView, countdownRunning, restRunning)
  /\ UNCHANGED <<configSets, isPaused, setTimers, besideWorkout>>

\* restTimer.onComplete: onStartNextSet()
RestComplete ==
  /\ restRunning
  /\ currentSetIndex < MaxSets
  /\ Becomes(StartNextSet(Store), appView, countdownRunning, FALSE)
  /\ UNCHANGED <<configSets, isPaused, setTimers, besideWorkout>>

\* skipRest: restTimer.stop(); onStartNextSet()
SkipRest ==
  /\ appView = "workout" /\ workoutPhase = "resting"
  /\ currentSetIndex < MaxSets
  /\ Becomes(StartNextSet(Store), appView, countdownRunning, FALSE)
  /\ UNCHANGED <<configSets, isPaused, setTimers, besideWorkout>>

\* WorkoutDisplay's effect on phase workoutComplete: App.handleCompleteWorkout
HandleCompleteWorkout ==
  /\ appView = "workout" /\ workoutPhase = "workoutComplete"
  /\ Becomes(CompleteWorkout(Store), "summary", FALSE, FALSE)
  /\ UNCHANGED <<configSets, isPaused, setTimers, besideWorkout>>

\* App.handleStopWorkout (the Stop button)
HandleStopWorkout ==
  /\ appView = "workout"
  /\ Becomes(CompleteWorkout(IF currentReps > 0 THEN CompleteSet(Store, configSets) ELSE Store),
             "summary", FALSE, FALSE)
  /\ UNCHANGED <<configSets, isPaused, setTimers, besideWorkout>>

\* App.handleNewWorkout
HandleNewWorkout ==
  /\ appView = "summary"
  /\ Becomes(ResetWorkout(Store), "home", FALSE, FALSE)
  /\ UNCHANGED <<configSets, isPaused, setTimers, besideWorkout>>

NextWorkout ==
  \/ \E sets \in 1..MaxSets : SetConfig(sets)
  \/ HandleStartWorkout
  \/ CountdownComplete
  \/ TogglePause
  \/ HandleRepComplete
  \/ SetTimerFires
  \/ EndSet
  \/ RestComplete
  \/ SkipRest
  \/ HandleCompleteWorkout
  \/ HandleStopWorkout
  \/ HandleNewWorkout

SpecWorkout == Init /\ [][NextWorkout]_vars

\* C30: resting and workoutComplete are entered only from exercising,
\* workoutComplete only when the completed set is the last configured one,
\* and the phase leaves summary only for setup (resetWorkout).
C30_PhaseOrder ==
  [][ /\ (workoutPhase' # workoutPhase /\ workoutPhase' \in {"resting", "workoutComplete"}
            => workoutPhase = "exercising")
      /\ (workoutPhase' # workoutPhase /\ workoutPhase' = "workoutComplete"
            => currentSetIndex + 1 >= configSets)
      /\ (workoutPhase = "summary" /\ workoutPhase' # "summary"
            => workoutPhase' = "setup") ]_vars

\* ------------------------------------------- detection loop (C31, C38)
\* One mounted WorkoutDisplay and its usePoseDetection hook.  startDetection
\* is called only once the camera is ready, so the video has a frame
\* (readyState >= 2) whenever detect() runs.  detect() is a closure of the
\* render that created it: the isActive and the onRepComplete it uses after
\* the await are the ones of the moment it was invoked.
IsActive == appView = "workout" /\ workoutPhase = "exercising" /\ ~isPaused

Estimating == estimating[TRUE] + estimating[FALSE]
PendingFrames == otherFrames + (IF animationFrameRef = "pending" THEN 1 ELSE 0)

\* WorkoutDisplay is unmounted and its cleanup (stopDetection) has not run
\* yet: the cleanup runs before anything else of the hook
CleanupDue == appView # "workout" /\ isRunningRef

\* detect() up to its await: nothing unless isRunningRef.current
DetectInvoked(running) ==
  IF running THEN [estimating EXCEPT ![IsActive] = @ + 1] ELSE estimating

\* startDetection()
StartDetection ==
  /\ appView = "workout"
  /\ ~isRunningRef
  /\ Estimating + PendingFrames < MaxLoops
  /\ isRunningRef' = TRUE
  /\ estimating' = DetectInvoked(TRUE)
  /\ UNCHANGED <<animationFrameRef, otherFrames, workoutVars, besideDetection>>

\* stopDetection(): the request animationFrameRef names is cancelled
StopDetection ==
  /\ isRunningRef \/ animationFrameRef # "null"
  /\ isRunningRef' = FALSE
  /\ animationFrameRef' = "null"
  /\ UNCHANGED <<otherFrames, estimating, workoutVars, besideDetection>>

\* an animation-frame request runs: detectRef.current?.()
FrameRuns ==
  /\ ~CleanupDue
  /\ \/ /\ animationFrameRef = "pending"
        /\ animationFrameRef' = "stale"
        /\ UNCHANGED otherFrames
     \/ /\ otherFrames > 0
        /\ otherFrames' = otherFrames - 1
        /\ UNCHANGED animationFrameRef
  /\ estimating' = DetectInvoked(isRunningRef)
  /\ UNCHANGED <<isRunningRef, workoutVars, besideDetection>>

\* detectPose() resolves and detect() runs to its end: with a pose and the
\* captured isActive it calls detectRep and forwards a returned record to
\* the captured handleRepComplete (addRep, and at the target the 500 ms
\* timer); then it requests the next animation frame
PoseEstimated(active, record) ==
  /\ ~CleanupDue
  /\ estimating[active] > 0
  /\ estimating' = [estimating EXCEPT ![active] = @ - 1]
  /\ record => active
  /\ record => repsAdded < MaxRepsAdded
  /\ record /\ currentReps + 1 >= TargetReps => setTimers < MaxSetTimers
  /\ currentReps' = IF record THEN currentReps + 1 ELSE currentReps
  /\ repsAdded' = IF record THEN repsAdded + 1 ELSE repsAdded
  /\ setTimers' = IF record /\ currentReps + 1 >= TargetReps THEN setTimers + 1 ELSE setTimers
  /\ animationFrameRef' = "pending"
  /\ otherFrames' = otherFrames + (IF animationFrameRef = "pending" THEN 1 ELSE 0)
  /\ UNCHANGED <<isRunningRef, workoutPhase, hasSession, currentSetIndex, configSets,
                 sessionSets, totalReps,
                 appView, isPaused, countdownRunning, restRunning, besideDetection>>

NextDetection ==
  \/ HandleStartWorkout
  \/ CountdownComplete
  \/ TogglePause
  \/ SetTimerFires
  \/ EndSet
  \/ RestComplete
  \/ SkipRest
  \/ HandleCompleteWorkout
  \/ HandleStopWorkout
  \/ StartDetection
  \/ StopDetection
  \/ FrameRuns
  \/ \E active \in BOOLEAN, record \in BOOLEAN : PoseEstimated(active, record)

SpecDetection == Init /\ [][NextDetection]_vars

\* C31: a rep is added to the store's current set only while isActive holds
\* (phase exercising, not paused), also when a pose estimation was in
\* flight when the phase changed.
C31_RepsOnlyWhileActive == [][currentReps' = currentReps + 1 => IsActive]_vars

\* C38: at most one detection loop is live: for any interleaving of
\* startDetection, stopDetection and the completion of a pose estimation in
\* flight, no two invocations of detect() await detectPose() together.
C38_OneLoop == Estimating <= 1

\* ------------------------------------------------- held signal (C32)
\* A subject of any exercise type, in side view, frames 450 ms apart: the
\* joint is held at 172 degrees until some time after calibration, moves
\* once to another angle and is held there.
HeldAngles == {60, 100, 120}
HeldDelays == {450}
HeldFrames(ph) ==
  LET held == IF ph = "calibrating" \/ angleHistory = << >> THEN {172}
              ELSE IF angleHistory[Len(angleHistory)] = 172 THEN {172} \cup HeldAngles
              ELSE {angleHistory[Len(angleHistory)]}
  IN  { FrameOf("side", a, YOf(a), 100, 100, FALSE, 0) : a \in held }

NextHeld ==
  \/ \E f \in HeldFrames(phase), dt \in HeldDelays : DetectRep(f, dt)
  \/ \E exercise \in ExerciseTypes : SetExercise(exercise)

SpecHeld == Init /\ [][NextHeld]_vars

\* the frame repeats the angle of the sample before it
Stationary ==
  AngleSampled /\ angleHistory # << >> /\ SampledAngle = angleHistory[Len(angleHistory)]

\* C32: onset and return conditions are separated by a hysteresis band, so
\* that a signal held at a constant value never opens and closes a
\* repetition: no record is returned on a frame that repeats the angle of
\* the frame before it.
C32_NoRecordWhileStationary == [][Stationary => repData' = << >>]_vars

\* the frame is routed to checkRepByAngle: it has an angle, and the
\* perspective is not front with a position to track
AngleRouted ==
  /\ AngleSampled
  /\ ~(currentPerspective' = "front" /\ PositionAvailable)

Onset == phase = "ready" /\ phase' \in Active

\* C33: in angle tracking, with a calibrated baseline angle, the
\* Ready -> Active transition is never taken on a frame whose angle is less
\* than half of minAngleChange away from the baseline.
C33_OnsetAwayFromBaseline ==
  [][Onset /\ AngleRouted /\ baselineAngle # NULL
       => 2 * Abs(60 * SampledAngle - baselineAngle)
            >= 60 * EXERCISE_THRESHOLDS[currentExercise].minAngleChange]_vars

\* a repetition just opened in side perspective with a baseline angle
C33_Witness ==
  /\ phase \in Active /\ timeSinceLastChange = 0
  /\ currentPerspective = "side" /\ baselineAngle # NULL
  /\ angleHistory # << >>
  /\ 2 * Abs(60 * angleHistory[Len(angleHistory)] - baselineAngle)
       >= 60 * EXERCISE_THRESHOLDS[currentExercise].minAngleChange

\* ------------------------------------------------- front view (C34)
\* A subject of any exercise type seen from the front, frames 450 ms apart,
\* shoulder-to-hip height 100: the tracked joint is held at y 100 while the
\* engine calibrates and then moves between y 100, 110 and 200, that is by
\* less or by more than 15% of the body height.
FrontYs(ph) == IF ph = "calibrating" THEN {100} ELSE {100, 110, 200}
FrontDelays == {450}
FrontViewFrames(ph) == { FrameOf("front", 172, y, 100, 100, FALSE, 0) : y \in FrontYs(ph) }

NextFront ==
  \/ \E f \in FrontViewFrames(phase), dt \in FrontDelays : DetectRep(f, dt)
  \/ \E exercise \in ExerciseTypes : SetExercise(exercise)

SpecFront == Init /\ [][NextFront]_vars

\* the frame is routed to checkRepByPosition
PositionRouted ==
  FrameProcessed /\ phase # "calibrating" /\ currentPerspective' = "front" /\ PositionAvailable

\* C34: in position tracking no phase transition is taken unless a position
\* baseline exists, the history holds at least 10 position samples and the
\* range maxY - minY observed since the last per-rep reset is at least 15%
\* of the frame's body height.
C34_PositionPreconditions ==
  [][PositionRouted /\ phase' # phase
       => /\ baselineY # NULL
          /\ yHistoryLength' >= 10
          /\ 100 * (Max2(maxY, SampledY) - Min2(minY, SampledY))
               >= lastBodyHeight' * MIN_Y_CHANGE_RATIO]_vars

\* a repetition just opened in front perspective
C34_Witness ==
  /\ phase \in Active /\ timeSinceLastChange = 0 /\ currentPerspective = "front"
  /\ 100 * (maxY - minY) >= lastBodyHeight * MIN_Y_CHANGE_RATIO

\* ------------------------------------------ perspective from a pose (C35)
\* Push-ups with elbow and wrist in view: the pose provider delivers the
\* shoulders and hips with any presence and confidence, and the frame the
\* engine derives from the pose follows detectPerspective and
\* getPrimaryValue.  The proportions of the torso (geometry) are those of
\* one camera position.
PerspectiveKeypoints == {"leftShoulder", "rightShoulder", "leftHip", "rightHip"}
PerspectiveScores == {0, 29}
FullConfidence == [present |-> TRUE, score |-> 90]
\* at most two of the four keypoints are uncertain in one pose
PerspectivePoses ==
  { pose \in [PerspectiveKeypoints ->
                {NoKeypoint, FullConfidence}
                  \cup { [present |-> TRUE, score |-> sc] : sc \in PerspectiveScores }] :
      Cardinality({name \in PerspectiveKeypoints : pose[name] # FullConfidence}) <= 2 }
Geometries == {"side", "front"}

\* keypoint.score || 0
ScoreOrZero(keypoint) == IF Truthy(keypoint.score) THEN keypoint.score ELSE 0

\* detectPerspective(): unknown unless getKeypoint returns all four and
\* both shoulders score at least 0.3
DetectPerspective(keypoints, geometry) ==
  IF \E name \in PerspectiveKeypoints : ~GetKeypoint(keypoints, name).present
    THEN "unknown"
  ELSE IF \/ ScoreOrZero(GetKeypoint(keypoints, "leftShoulder")) < 30
          \/ ScoreOrZero(GetKeypoint(keypoints, "rightShoulder")) < 30
    THEN "unknown"
  ELSE geometry

\* getKP('rightX') || getKP('leftX')
EitherSide(keypoints, right, left) ==
  GetKeypoint(keypoints, right).present \/ GetKeypoint(keypoints, left).present

\* getPrimaryValue() for push-ups: angle and yPosition need a shoulder,
\* bodyHeight a shoulder and a hip
FrameFromPose(keypoints, geometry) ==
  LET shoulder == EitherSide(keypoints, "rightShoulder", "leftShoulder")
      hip == EitherSide(keypoints, "rightHip", "leftHip")
  IN  FrameOf(DetectPerspective(keypoints, geometry),
              IF shoulder THEN 172 ELSE NULL,
              IF shoulder THEN 100 ELSE NULL,
              IF shoulder /\ hip THEN 100 ELSE NULL,
              100, FALSE, 0)

\* poseDetectionService.detectPose() delivers a pose
PoseArrives ==
  /\ frameCount < MaxPoseFrames
  /\ \E keypoints \in PerspectivePoses :
       /\ poseKeypoints # keypoints
       /\ poseKeypoints' = keypoints
  /\ UNCHANGED <<requestedName, returnedKeypoint, besideKeypoints>>

\* detectRep(pose.keypoints), in a session MaxPoseFrames long
DetectRepOnPose ==
  /\ poseKeypoints # << >>
  /\ frameCount < MaxPoseFrames
  /\ \E geometry \in Geometries :
       /\ SameCamera(FrameOf(geometry, NULL, NULL, NULL, 100, FALSE, 0))
       /\ DetectRep(FrameFromPose(poseKeypoints, geometry), 200)

NextPose == PoseArrives \/ DetectRepOnPose \/ Reset

SpecPose == Init /\ [][NextPose]_vars

\* absent, or with a confidence below 0.3
LowOrMissing(keypoint) ==
  ~keypoint.present \/ (keypoint.score # NULL /\ keypoint.score < 30)
ShouldersHipsUncertain ==
  \E name \in PerspectiveKeypoints : LowOrMissing(poseKeypoints[name])

\* C35: a frame on which a shoulder or a hip is missing or of low
\* confidence leaves the visible perspective and the perspective history
\* unchanged, and no frame takes the visible perspective back to unknown.
C35_PerspectiveKept ==
  [][FrameProcessed =>
       /\ (ShouldersHipsUncertain => UNCHANGED <<currentPerspective, perspectiveHistory>>)
       /\ (currentPerspective # "unknown" => currentPerspective' # "unknown")]_vars

\* C36: a Form Issue is recorded only when every keypoint its check needs
\* is present: a push-up frame without a shoulder (the frame yields no
\* yPosition) appends no issue to the list.
C36_NoIssueWithoutKeypoints ==
  [][FrameProcessed /\ currentExercise = "pushups" /\ ~YSampled => ~IssueAppended]_vars

\* C37: a session records each set at most once: it never holds more sets
\* than config.sets, currentSetIndex stays below config.sets, and
\* totalReps never exceeds the number of reps added with addRep.
C37_SetsRecordedOnce ==
  hasSession =>
    /\ sessionSets <= configSets
    /\ currentSetIndex < configSets
    /\ totalReps <= repsAdded

\* ------------------------------------------------ speech priorities (C39)
\* the utterances speak() hands to the synthesizer in one step, after the
\* ones the synthesizer kept
SubmittedAfter(kept) ==
  [i \in 1..(Len(synthesisQueue') - Len(kept)) |-> synthesisQueue'[Len(kept) + i].text]

\* C39: with speech enabled, speak(text, 'high') leaves no message pending
\* but text (text is submitted at once, or is alone in the queue while an
\* utterance is being spoken), speak(text, 'normal') puts text ahead of all
\* pending messages and speak(text, 'low') behind them; while speech is
\* disabled speak() leaves the queue unchanged and submits nothing.
C39_SpeakPriorities ==
  [][\A text \in Texts \ {""}, priority \in Priorities :
       Speak(text, priority) =>
         IF ~speechEnabled
           THEN messageQueue' = messageQueue /\ synthesisQueue' = synthesisQueue
         ELSE IF ~synthesis
           THEN TRUE
         ELSE IF priority = "high"
           THEN /\ SubmittedAfter(<< >>) \o messageQueue' = <<text>>
                /\ Len(synthesisQueue') <= 1
         ELSE IF priority = "normal"
           THEN SubmittedAfter(synthesisQueue) \o messageQueue' = <<text>> \o messageQueue
         ELSE LET pending == SubmittedAfter(synthesisQueue) \o messageQueue'
              IN  \/ pending = Append(messageQueue, text)
                  \* an empty text at the head of the queue is taken and dropped
                  \/ /\ messageQueue # << >> /\ Head(messageQueue) = ""
                     /\ pending = Append(Tail(messageQueue), text)
    ]_vars

\* a high-priority text waits alone in the queue: the utterance being
\* spoken was cancelled and its event has not arrived yet
C39_Witness ==
  /\ speechEnabled /\ synthesis
  /\ isSpeaking /\ cancelledUtterances > 0
  /\ messageQueue = <<"five">>
  /\ synthesisQueue = << >>
  /\ speakCalls = 3

\* ----------------------------------------------------- useTimer (C40)
\* A handler of the hook is followed by the render it causes and by the
\* effect on [isRunning, countdown]: the interval is live exactly while
\* isRunning.  The application is rendered under React.StrictMode, where a
\* development build calls the updater given to setTimeState twice with the
\* same prevTime, and with it the callbacks the updater calls; a
\* production build calls it once.
StartTimes == 1..MaxTime

\* the new time the updater computes
NewTime(prevTime, counting) == IF counting THEN prevTime - 1 ELSE prevTime + 1

\* the updater ends the countdown
Completes(prevTime, counting) == counting /\ NewTime(prevTime, counting) <= 0

\* the hook is given another countdown option while it is stopped
SetCountdown(counting) ==
  /\ ~isRunning
  /\ countdownOption # counting
  /\ countdownOption' = counting
  /\ UNCHANGED <<time, isRunning, intervalRef, startTime, completeCalls, tickCalls, besideTimer>>

\* reset(newTime): stop(), setTimeState(newTime)
TimerReset(newTime) ==
  /\ time' = newTime
  /\ isRunning' = FALSE
  /\ intervalRef' = "null"
  /\ startTime' = 0 /\ completeCalls' = 0 /\ tickCalls' = 0
  /\ UNCHANGED <<countdownOption, besideTimer>>

\* setTime(newTime)
TimerSetTime(newTime) ==
  /\ time # newTime
  /\ time' = newTime
  /\ UNCHANGED <<isRunning, intervalRef, countdownOption, startTime, completeCalls, tickCalls, besideTimer>>

\* start(): nothing if isRunning; the effect sets the interval
TimerStart ==
  /\ ~isRunning
  /\ isRunning' = TRUE
  /\ intervalRef' = "set"
  /\ startTime' = time /\ completeCalls' = 0 /\ tickCalls' = 0
  /\ UNCHANGED <<time, countdownOption, besideTimer>>

\* stop(): setIsRunning(false), clearTimer()
TimerStop ==
  /\ isRunning
  /\ isRunning' = FALSE
  /\ intervalRef' = "null"
  /\ UNCHANGED <<time, countdownOption, startTime, completeCalls, tickCalls, besideTimer>>

\* the interval fires: setTimeState(updater); the updater is called `calls`
\* times.  At the end of a countdown it calls setIsRunning(false) and
\* onComplete and returns 0, and the effect then clears the interval.
TimerTick(calls) ==
  /\ intervalRef = "set"
  /\ ~countdownOption => time < MaxTime
  /\ tickCalls + calls <= MaxTickCalls
  /\ tickCalls' = tickCalls + calls
  /\ IF Completes(time, countdownOption)
       THEN /\ time' = 0
            /\ isRunning' = FALSE
            /\ intervalRef' = "null"
            /\ completeCalls' = completeCalls + calls
       ELSE /\ time' = NewTime(time, countdownOption)
            /\ UNCHANGED <<isRunning, intervalRef, completeCalls>>
  /\ UNCHANGED <<countdownOption, startTime, besideTimer>>

NextTimer ==
  \/ \E counting \in BOOLEAN : SetCountdown(counting)
  \/ \E newTime \in StartTimes : TimerReset(newTime)
  \/ \E newTime \in 0..MaxTime : TimerSetTime(newTime)
  \/ TimerStart
  \/ TimerStop
  \/ \E calls \in 1..2 : TimerTick(calls)

SpecTimer == Init /\ [][NextTimer]_vars

\* C40: a countdown started at n >= 1 never shows a negative time, calls
\* onComplete exactly once when it reaches 0 and is stopped from then on,
\* and does not call onComplete after stop(): the interval is live only
\* while isRunning.
C40_CompletesOnce ==
  countdownOption /\ startTime >= 1 =>
    /\ time >= 0
    /\ completeCalls <= 1
    /\ (completeCalls > 0 => ~isRunning)
    /\ (intervalRef = "set" <=> isRunning)

====
